---- MODULE Spec2Model ----
(***************************************************************************)
(* Model of the Kubernetes quantity parser and the cluster CPU / memory    *)
(* aggregations of src/src/k8s_mcp_server.py (tool-call server) and        *)
(* src/src/unified_server.py (HTTP server), and of the startup and the     *)
(* /query operation of src/src/main.py and src/src/unified_server.py.      *)
(*                                                                         *)
(* Strings are sequences of one-character strings.  Python floats are      *)
(* modelled as exact rationals (plus inf and nan), so "within floating-    *)
(* point tolerance" in the specification reads as equality here.           *)
(***************************************************************************)
EXTENDS Integers, Sequences, FiniteSets, TLC

VARIABLES
    pq_in,       \* the quantity string handed to parse_quantity
    pq_out,      \* what the two parse_quantity definitions returned for it
    k8s,         \* module-level client handles of the two servers
    req,         \* the request in flight: handler position, locals, response
    reqs,        \* the requests in flight when a server handles several at once
    boot,        \* startup_event of main.py, of unified_server.py, and Qdrant
    rag          \* the /query request in flight: handler position, locals, answer

vars == <<pq_in, pq_out, k8s, req, reqs, boot, rag>>

(***************************************************************************)
(* Numbers.  A finite value is n/d * 2^e2 * 5^e5 in canonical form: d > 0, *)
(* n and d coprime and both coprime to 10, zero is 0/1 * 2^0 * 5^0.  The   *)
(* form keeps 1024^4 and 1000^4 within the integers the checker can hold,  *)
(* and makes numeric equality the equality of records.  d = 0 marks the    *)
(* non-finite floats: n = 1 is inf, n = -1 is -inf, n = 0 is nan.          *)
(***************************************************************************)
Abs(k) == IF k < 0 THEN -k ELSE k

Sgn(k) == IF k < 0 THEN -1 ELSE IF k > 0 THEN 1 ELSE 0

Min(a, b) == IF a < b THEN a ELSE b

Max(a, b) == IF a > b THEN a ELSE b

RECURSIVE GCD(_, _)
GCD(a, b) == IF b = 0 THEN a ELSE GCD(b, a % b)

\* How many times p divides k (k # 0).
RECURSIVE Val(_, _)
Val(k, p) == IF k % p = 0 THEN 1 + Val(k \div p, p) ELSE 0

FZero == [n |-> 0, d |-> 1, e2 |-> 0, e5 |-> 0]

FInf == [n |-> 1, d |-> 0, e2 |-> 0, e5 |-> 0]

FNegInf == [n |-> -1, d |-> 0, e2 |-> 0, e5 |-> 0]

FNaN == [n |-> 0, d |-> 0, e2 |-> 0, e5 |-> 0]

IsFinite(x) == x.d # 0

\* The canonical form of n/d * 2^e2 * 5^e5 (d > 0).
Norm(n, d, e2, e5) ==
    IF n = 0 THEN FZero
    ELSE LET g  == GCD(Abs(n), d)
             n1 == Abs(n) \div g
             d1 == d \div g
             n2 == Val(n1, 2)
             n5 == Val(n1, 5)
             d2 == Val(d1, 2)
             d5 == Val(d1, 5)
         IN  [n  |-> Sgn(n) * (n1 \div ((2 ^ n2) * (5 ^ n5))),
              d  |-> d1 \div ((2 ^ d2) * (5 ^ d5)),
              e2 |-> e2 + n2 - d2,
              e5 |-> e5 + n5 - d5]

FInt(k) == Norm(k, 1, 0, 0)

\* k * 10^e
FDec(k, e) == Norm(k, 1, e, e)

FNeg(x) == [x EXCEPT !.n = -x.n]

FSign(x) == IF x.d = 0 /\ x.n = 0 THEN 0 ELSE Sgn(x.n)

\* float * float
FMul(x, y) ==
    IF IsFinite(x) /\ IsFinite(y)
    THEN Norm(x.n * y.n, x.d * y.d, x.e2 + y.e2, x.e5 + y.e5)
    ELSE IF x = FNaN \/ y = FNaN \/ x = FZero \/ y = FZero THEN FNaN
    ELSE IF Sgn(x.n) * Sgn(y.n) > 0 THEN FInf ELSE FNegInf

\* float + float
FAdd(x, y) ==
    IF IsFinite(x) /\ IsFinite(y)
    THEN IF x = FZero THEN y
         ELSE IF y = FZero THEN x
         ELSE LET a == Min(x.e2, y.e2)
                  b == Min(x.e5, y.e5)
              IN  Norm(x.n * y.d * (2 ^ (x.e2 - a)) * (5 ^ (x.e5 - b))
                         + y.n * x.d * (2 ^ (y.e2 - a)) * (5 ^ (y.e5 - b)),
                       x.d * y.d, a, b)
    ELSE IF x = FNaN \/ y = FNaN THEN FNaN
    ELSE IF IsFinite(x) THEN y
    ELSE IF IsFinite(y) THEN x
    ELSE IF x = y THEN x ELSE FNaN

\* float / float, for a divisor that is not zero (Python raises ZeroDivisionError
\* on a zero divisor: see PyDiv).
FDiv(x, y) ==
    IF IsFinite(y)
    THEN FMul(x, [n |-> Sgn(y.n) * y.d, d |-> Abs(y.n), e2 |-> -y.e2, e5 |-> -y.e5])
    ELSE IF y = FNaN \/ ~IsFinite(x) THEN FNaN
    ELSE FZero

\* x > y on floats: every comparison with nan is false.
FGreater(x, y) ==
    IF x = FNaN \/ y = FNaN THEN FALSE
    ELSE IF ~IsFinite(x) THEN x = FInf /\ y # FInf
    ELSE IF ~IsFinite(y) THEN y = FNegInf
    ELSE FAdd(x, FNeg(y)).n > 0

\* x >= y on floats that are not nan
FAtLeast(x, y) == ~FGreater(y, x)

\* round(x, ndigits): to the nearest multiple of 10^-ndigits, ties to even;
\* a non-finite float is returned unchanged.
round(x, ndigits) ==
    IF ~IsFinite(x) THEN x
    ELSE LET s2  == x.e2 + ndigits
             s5  == x.e5 + ndigits
             num == Abs(x.n) * (2 ^ Max(s2, 0)) * (5 ^ Max(s5, 0))
             den == x.d * (2 ^ Max(-s2, 0)) * (5 ^ Max(-s5, 0))
             q   == num \div den
             r   == num % den
             up  == (2 * r > den) \/ (2 * r = den /\ q % 2 = 1)
         IN  FDec(Sgn(x.n) * (IF up THEN q + 1 ELSE q), -ndigits)

(***************************************************************************)
(* Strings and Python's float(str).                                        *)
(***************************************************************************)
DigitChars == <<"0", "1", "2", "3", "4", "5", "6", "7", "8", "9">>

Digits == {DigitChars[i] : i \in 1..Len(DigitChars)}

DigitVal(c) == (CHOOSE i \in 1..Len(DigitChars) : DigitChars[i] = c) - 1

\* str.lower() on the letters float() reads case-insensitively.
Lower(c) ==
    CASE c = "I" -> "i" [] c = "N" -> "n" [] c = "F" -> "f" [] c = "A" -> "a"
      [] c = "T" -> "t" [] c = "Y" -> "y" [] c = "E" -> "e" [] OTHER -> c

LowerStr(s) == [i \in 1..Len(s) |-> Lower(s[i])]

\* s.endswith(suffix)
EndsWith(s, suffix) ==
    /\ Len(s) >= Len(suffix)
    /\ SubSeq(s, Len(s) - Len(suffix) + 1, Len(s)) = suffix

\* s[:-k] for 1 <= k <= len(s)
DropLast(s, k) == SubSeq(s, 1, Len(s) - k)

\* s.strip(): float() ignores leading and trailing whitespace.
RECURSIVE StripLeft(_)
StripLeft(s) == IF s # <<>> /\ Head(s) = " " THEN StripLeft(Tail(s)) ELSE s

RECURSIVE StripRight(_)
StripRight(s) ==
    IF s # <<>> /\ s[Len(s)] = " " THEN StripRight(DropLast(s, 1)) ELSE s

Strip(s) == StripRight(StripLeft(s))

\* The positions of the characters of s that are in set cs.
Positions(s, cs) == {i \in 1..Len(s) : s[i] \in cs}

\* digitpart ::= digit (["_"] digit)*
IsDigitPart(s) ==
    /\ s # <<>>
    /\ \A i \in 1..Len(s) : s[i] \in Digits \cup {"_"}
    /\ s[1] \in Digits /\ s[Len(s)] \in Digits
    /\ \A i \in 1..(Len(s) - 1) : ~(s[i] = "_" /\ s[i + 1] = "_")

RECURSIVE DigitsToInt(_)
DigitsToInt(s) ==
    IF s = <<>> THEN 0
    ELSE IF s[Len(s)] = "_" THEN DigitsToInt(DropLast(s, 1))
    ELSE 10 * DigitsToInt(DropLast(s, 1)) + DigitVal(s[Len(s)])

NumDigits(s) == Cardinality(Positions(s, Digits))

Ok(v) == [exc |-> "none", val |-> v]

Raise(e) == [exc |-> e, val |-> FZero]

\* s cut at its first character of set cs: how many characters of cs it holds,
\* what precedes the first and what follows it.
CutAt(s, cs) ==
    LET ps == Positions(s, cs)
    IN  IF ps = {} THEN [n |-> 0, before |-> s, after |-> <<>>]
        ELSE LET first == CHOOSE i \in ps : \A j \in ps : i <= j
             IN  [n |-> Cardinality(ps), before |-> SubSeq(s, 1, first - 1),
                  after |-> SubSeq(s, first + 1, Len(s))]

\* The digits ds, signed by the sign character in front of them (if any), as
\* an exponent: <<well-formed, value>>.
SignedDigits(negative, ds) ==
    IF IsDigitPart(ds)
    THEN <<TRUE, (IF negative THEN -1 ELSE 1) * DigitsToInt(ds)>>
    ELSE <<FALSE, 0>>

\* [sign] digitpart of an exponent
ExponentOf(s) ==
    IF s # <<>> /\ s[1] \in {"+", "-"}
    THEN SignedDigits(s[1] = "-", Tail(s))
    ELSE SignedDigits(FALSE, s)

\* The value of integer part ip, fraction part fp and exponent ex, when
\* the literal is well-formed: a digit before or after the point.
DecimalValue(points, ip, fp, ex) ==
    IF /\ points <= 1
       /\ ex[1]
       /\ ip = <<>> \/ IsDigitPart(ip)
       /\ fp = <<>> \/ IsDigitPart(fp)
       /\ ip # <<>> \/ fp # <<>>
    THEN Ok(FDec(DigitsToInt(ip \o fp), ex[2] - NumDigits(fp)))
    ELSE Raise("ValueError")

MantissaOf(m, ex) == DecimalValue(m.n, m.before, m.after, ex)

ExponentCut(c) ==
    IF c.n > 1 THEN Raise("ValueError")
    ELSE MantissaOf(CutAt(c.before, {"."}),
                    IF c.n = 0 THEN <<TRUE, 0>> ELSE ExponentOf(c.after))

\* The unsigned decimal literal s: [digitpart] ["." [digitpart]] [("e"|"E") exponent]
DecimalOf(s) == ExponentCut(CutAt(s, {"e", "E"}))

Negated(r) == IF r.exc = "none" THEN Ok(FNeg(r.val)) ELSE r

\* The literal body after its sign: inf, infinity and nan in any case, or a
\* decimal literal.
SignedBody(neg, body, low) ==
    IF low \in {<<"i", "n", "f">>, <<"i", "n", "f", "i", "n", "i", "t", "y">>}
    THEN Ok(IF neg THEN FNegInf ELSE FInf)
    ELSE IF low = <<"n", "a", "n">> THEN Ok(FNaN)
    ELSE IF neg THEN Negated(DecimalOf(body))
    ELSE DecimalOf(body)

Unsigned(neg, body) == SignedBody(neg, body, LowerStr(body))

Stripped(t) ==
    IF t # <<>> /\ t[1] \in {"+", "-"} THEN Unsigned(t[1] = "-", Tail(t))
    ELSE Unsigned(FALSE, t)

\* float(s) for a string s: the parsed value, or ValueError.
float(s) == Stripped(Strip(s))

\* x / y on floats: a zero divisor raises.
TrueDiv(x, y) == IF y = FZero THEN Raise("ZeroDivisionError") ELSE Ok(FDiv(x, y))

\* Python's x / y and x * y on the result of a call that may have raised.
PyDiv(r, y) == IF r.exc # "none" THEN r ELSE Ok(FDiv(r.val, y))

PyMul(r, y) == IF r.exc # "none" THEN r ELSE Ok(FMul(r.val, y))

(***************************************************************************)
(* parse_quantity, as defined in each of the two servers.                  *)
(***************************************************************************)
\* Python's None, where a quantity string is expected.
None == <<"None">>

\* base ** k
RECURSIVE FPow(_, _)
FPow(base, k) == IF k = 0 THEN FInt(1) ELSE FMul(FInt(base), FPow(base, k - 1))

\* Mutant of units: the decimal kilo is given the binary multiplier.
units_kilo_1024 ==
    << [suffix |-> <<"K", "i">>, multiplier |-> FInt(1024)],
       [suffix |-> <<"M", "i">>, multiplier |-> FPow(1024, 2)],
       [suffix |-> <<"G", "i">>, multiplier |-> FPow(1024, 3)],
       [suffix |-> <<"T", "i">>, multiplier |-> FPow(1024, 4)],
       [suffix |-> <<"K">>,      multiplier |-> FInt(1024)],
       [suffix |-> <<"M">>,      multiplier |-> FPow(1000, 2)],
       [suffix |-> <<"G">>,      multiplier |-> FPow(1000, 3)],
       [suffix |-> <<"T">>,      multiplier |-> FPow(1000, 4)] >>

\* Mutant of units: the binary kilo suffix is spelled iK, which ends with the
\* decimal suffix K.
units_kilo_iK ==
    << [suffix |-> <<"i", "K">>, multiplier |-> FInt(1024)],
       [suffix |-> <<"M", "i">>, multiplier |-> FPow(1024, 2)],
       [suffix |-> <<"G", "i">>, multiplier |-> FPow(1024, 3)],
       [suffix |-> <<"T", "i">>, multiplier |-> FPow(1024, 4)],
       [suffix |-> <<"K">>,      multiplier |-> FInt(1000)],
       [suffix |-> <<"M">>,      multiplier |-> FPow(1000, 2)],
       [suffix |-> <<"G">>,      multiplier |-> FPow(1000, 3)],
       [suffix |-> <<"T">>,      multiplier |-> FPow(1000, 4)] >>

\* The units dict of parse_quantity, in insertion (= iteration) order.
units ==
    << [suffix |-> <<"K", "i">>, multiplier |-> FInt(1024)],
       [suffix |-> <<"M", "i">>, multiplier |-> FPow(1024, 2)],
       [suffix |-> <<"G", "i">>, multiplier |-> FPow(1024, 3)],
       [suffix |-> <<"T", "i">>, multiplier |-> FPow(1024, 4)],
       [suffix |-> <<"K">>,      multiplier |-> FInt(1000)],
       [suffix |-> <<"M">>,      multiplier |-> FPow(1000, 2)],
       [suffix |-> <<"G">>,      multiplier |-> FPow(1000, 3)],
       [suffix |-> <<"T">>,      multiplier |-> FPow(1000, 4)] >>

\* Mutant of StripSuffix: one character is stripped whatever the suffix, as if
\* every suffix were checked as a single trailing character.
StripOneChar(quantity_str, suffix) == DropLast(quantity_str, 1)

\* quantity_str[:-len(suffix)]
StripSuffix(quantity_str, suffix) == DropLast(quantity_str, Len(suffix))

\* The for loop over units.items() from entry i on, then the final float().
RECURSIVE units_loop(_, _)
units_loop(quantity_str, i) ==
    IF i > Len(units) THEN float(quantity_str)
    ELSE IF EndsWith(quantity_str, units[i].suffix)
         THEN PyMul(float(StripSuffix(quantity_str, units[i].suffix)),
                    units[i].multiplier)
         ELSE units_loop(quantity_str, i + 1)

\* `if not quantity_str: return 0`
Falsy(quantity_str) == quantity_str = None \/ quantity_str = <<>>

\* A result that raised, replaced by 0.
ZeroIfRaised(r) == IF r.exc = "none" THEN r ELSE Ok(FZero)

\* Mutant of parse_quantity: a string that does not parse is counted as 0.
parse_quantity_or_zero(quantity_str) ==
    IF Falsy(quantity_str) THEN Ok(FZero)
    ELSE IF EndsWith(quantity_str, <<"m">>)
         THEN ZeroIfRaised(PyDiv(float(DropLast(quantity_str, 1)), FInt(1000)))
    ELSE IF EndsWith(quantity_str, <<"n">>)
         THEN ZeroIfRaised(PyDiv(float(DropLast(quantity_str, 1)),
                                 FInt(1000000000)))
    ELSE ZeroIfRaised(units_loop(quantity_str, 1))

\* parse_quantity of k8s_mcp_server.py
parse_quantity(quantity_str) ==
    IF Falsy(quantity_str) THEN Ok(FZero)
    ELSE IF EndsWith(quantity_str, <<"m">>)
         THEN PyDiv(float(DropLast(quantity_str, 1)), FInt(1000))
    ELSE IF EndsWith(quantity_str, <<"n">>)
         THEN PyDiv(float(DropLast(quantity_str, 1)), FInt(1000000000))
    ELSE units_loop(quantity_str, 1)

\* Mutant of unified_units: the copy lacks the tera suffixes.
unified_units_without_tera ==
    << [suffix |-> <<"K", "i">>, multiplier |-> FInt(1024)],
       [suffix |-> <<"M", "i">>, multiplier |-> FPow(1024, 2)],
       [suffix |-> <<"G", "i">>, multiplier |-> FPow(1024, 3)],
       [suffix |-> <<"K">>,      multiplier |-> FInt(1000)],
       [suffix |-> <<"M">>,      multiplier |-> FPow(1000, 2)],
       [suffix |-> <<"G">>,      multiplier |-> FPow(1000, 3)] >>

\* The units dict of parse_quantity in unified_server.py.
unified_units ==
    << [suffix |-> <<"K", "i">>, multiplier |-> FInt(1024)],
       [suffix |-> <<"M", "i">>, multiplier |-> FPow(1024, 2)],
       [suffix |-> <<"G", "i">>, multiplier |-> FPow(1024, 3)],
       [suffix |-> <<"T", "i">>, multiplier |-> FPow(1024, 4)],
       [suffix |-> <<"K">>,      multiplier |-> FInt(1000)],
       [suffix |-> <<"M">>,      multiplier |-> FPow(1000, 2)],
       [suffix |-> <<"G">>,      multiplier |-> FPow(1000, 3)],
       [suffix |-> <<"T">>,      multiplier |-> FPow(1000, 4)] >>

RECURSIVE unified_units_loop(_, _)
unified_units_loop(quantity_str, i) ==
    IF i > Len(unified_units) THEN float(quantity_str)
    ELSE IF EndsWith(quantity_str, unified_units[i].suffix)
         THEN PyMul(float(DropLast(quantity_str, Len(unified_units[i].suffix))),
                    unified_units[i].multiplier)
         ELSE unified_units_loop(quantity_str, i + 1)

\* parse_quantity of unified_server.py
unified_parse_quantity(quantity_str) ==
    IF Falsy(quantity_str) THEN Ok(FZero)
    ELSE IF EndsWith(quantity_str, <<"m">>)
         THEN PyDiv(float(DropLast(quantity_str, 1)), FInt(1000))
    ELSE IF EndsWith(quantity_str, <<"n">>)
         THEN PyDiv(float(DropLast(quantity_str, 1)), FInt(1000000000))
    ELSE unified_units_loop(quantity_str, 1)

(***************************************************************************)
(* The quantity strings the parser is applied to.                          *)
(***************************************************************************)
\* Longest string over Alphabet that is tried.
MaxLen == 3

\* Longest arbitrary prefix put in front of each suffix.
MaxPrefix == 2

\* Magnitudes are k / 10^j for k <= MaxMantissa and j <= MaxDecimals.
MaxMantissa == 12

MaxDecimals == 2

\* A digit, the characters of a float literal, whitespace, the suffix letters
\* and a letter (P) that is part of no recognized suffix.
Alphabet == {"5", ".", "-", "e", " ", "m", "n", "K", "i", "G", "P"}

RECURSIVE StringsOver(_, _)
StringsOver(cs, len) ==
    IF len = 0 THEN {<<>>}
    ELSE LET shorter == StringsOver(cs, len - 1)
         IN  shorter \cup {Append(t, c) : t \in shorter, c \in cs}

\* The suffixes of the specification: Ki..Ti, K..T, m, n and none.
Suffixes ==
    { <<"K", "i">>, <<"M", "i">>, <<"G", "i">>, <<"T", "i">>,
      <<"K">>, <<"M">>, <<"G">>, <<"T">>, <<"m">>, <<"n">>, <<>> }

\* Suffixes of the Kubernetes quantity grammar that parse_quantity does not know.
UnknownSuffixes == { <<"P", "i">>, <<"k">>, <<"E">>, <<"u">> }

Magnitudes ==
    { x \in [k : 0..MaxMantissa, j : 0..MaxDecimals] : x.j = 0 \/ x.k % 10 # 0 }

MagnitudeValue(x) == FDec(x.k, -x.j)

\* str(k) for an integer k >= 0
RECURSIVE IntText(_)
IntText(k) ==
    IF k < 10 THEN <<DigitChars[k + 1]>>
    ELSE Append(IntText(k \div 10), DigitChars[(k % 10) + 1])

\* The j-digit text of k, zero-padded on the left.
RECURSIVE Padded(_, _)
Padded(k, j) ==
    IF j = 0 THEN <<>> ELSE Append(Padded(k \div 10, j - 1), DigitChars[(k % 10) + 1])

\* f"{x}" for the float x = k / 10^j: repr always shows a fractional part.
FloatText(x) ==
    IntText(x.k \div (10 ^ x.j)) \o <<".">>
        \o (IF x.j = 0 THEN <<"0">> ELSE Padded(x.k % (10 ^ x.j), x.j))

\* The texts of magnitude x: f"{x}" of the float, and str(x) when x is integral.
MagnitudeTexts(x) == {FloatText(x)} \cup (IF x.j = 0 THEN {IntText(x.k)} ELSE {})

\* The examples of the specification that the sets above do not contain.
ExampleInputs ==
    { <<"2", "5", "0", "m">>,
      <<"1", "0", "0", "0", "0", "0", "0", "0", "0", "0", "n">>,
      <<"4">>,
      <<"i", "n", "f">>, <<"n", "a", "n">>, <<"1", "_", "0", "K", "i">> }

QuantityInputs ==
    StringsOver(Alphabet, MaxLen)
      \cup {p \o s : p \in StringsOver(Alphabet, MaxPrefix),
                     s \in Suffixes \cup UnknownSuffixes}
      \cup {t \o s : t \in UNION {MagnitudeTexts(x) : x \in Magnitudes},
                     s \in Suffixes \cup UnknownSuffixes}
      \cup ExampleInputs
      \cup {None}

(***************************************************************************)
(* Module-level state and the request in flight.                           *)
(***************************************************************************)
NoCall == [done |-> FALSE, mcp |-> Ok(FZero), http |-> Ok(FZero)]

\* One call of each parse_quantity on the input drawn by InitParser.
ParseQuantity ==
    /\ ~pq_out.done
    /\ pq_out' = [done |-> TRUE,
                  mcp  |-> parse_quantity(pq_in),
                  http |-> unified_parse_quantity(pq_in)]
    /\ UNCHANGED <<pq_in, k8s, req, reqs, boot, rag>>

InitParser ==
    /\ pq_in \in QuantityInputs
    /\ pq_out = NoCall
    /\ k8s = "unset"
    /\ req = "none"
    /\ reqs = "none"
    /\ boot = "none"
    /\ rag = "none"

NextParser == ParseQuantity

SpecParser == InitParser /\ [][NextParser]_vars

(***************************************************************************)
(* The cluster the servers talk to: what the metrics listing and the node  *)
(* inventory may answer.                                                   *)
(***************************************************************************)
\* Longest metrics listing.
MaxItems == 2

NodeNames == {"a", "b"}

S(cpu, memory) == [cpu |-> cpu, memory |-> memory]

\* item['usage'] of a metrics sample: 8 cores / 8 GiB, 12 cores / 12 GiB,
\* 250 millicores / 2 GiB, 400000 nanocores / 5 MiB (both below half of the
\* last decimal the output shows), and one with quantities parse_quantity
\* rejects.
UsagePool ==
    { S(<<"8">>, <<"8", "G", "i">>),
      S(<<"1", "2">>, <<"1", "2", "G", "i">>),
      S(<<"2", "5", "0", "m">>, <<"2", "G", "i">>),
      S(<<"4", "0", "0", "0", "0", "0", "n">>, <<"5", "M", "i">>),
      S(<<"5", "u">>, <<"1", "P", "i">>) }

\* node.status.capacity of an inventory node: 10 cores / 10 GiB, 2 cores /
\* 4194304Ki (4 GiB), and zero capacity.
CapacityPool ==
    { S(<<"1", "0">>, <<"1", "0", "G", "i">>),
      S(<<"2">>, <<"4", "1", "9", "4", "3", "0", "4", "K", "i">>),
      S(<<"0">>, <<"0">>) }

ItemPool == {[name |-> nm, usage |-> u] : nm \in NodeNames, u \in UsagePool}

RECURSIVE SeqsUpTo(_, _)
SeqsUpTo(pool, len) ==
    IF len = 0 THEN {<<>>}
    ELSE LET shorter == SeqsUpTo(pool, len - 1)
         IN  shorter \cup {Append(t, x) : t \in shorter, x \in pool}

\* nodes_metrics.get('items', []) of a metrics listing that succeeded.
MetricsListings == SeqsUpTo(ItemPool, MaxItems)

\* {node.metadata.name: node.status.capacity for node in nodes.items}: a node of
\* the metrics listing may be missing from the inventory.
Inventories == UNION {[ns -> CapacityPool] : ns \in SUBSET NodeNames}

\* Statuses of a failing cluster API call: not found, and another error.
ApiErrorStatuses == {404, 403}

\* Exceptions of a cluster API call that got no answer: they are no
\* ApiException.
ConnectionErrors == {"MaxRetryError"}

\* d.get(key, default)
DictGet(d, key, default) == IF key \in DOMAIN d THEN d[key] ELSE default

EmptyDict == [key \in {} |-> <<>>]

(***************************************************************************)
(* The aggregation loop bodies and result builders of the two servers.     *)
(***************************************************************************)
\* Mutant of utilization: the guard reads capacity >= 0.
utilization_ge(usage, capacity) ==
    IF FAtLeast(capacity, FZero)
    THEN PyMul(TrueDiv(usage, capacity), FInt(100))
    ELSE Ok(FZero)

\* Mutant of utilization: no guard at all.
utilization_unguarded(usage, capacity) ==
    PyMul(TrueDiv(usage, capacity), FInt(100))

\* Mutant of utilization: the percentage is capped at 100.
utilization_clamped(usage, capacity) ==
    IF FGreater(capacity, FZero)
    THEN IF FGreater(usage, capacity) THEN Ok(FInt(100))
         ELSE PyMul(TrueDiv(usage, capacity), FInt(100))
    ELSE Ok(FZero)

\* Mutant of utilization: the ratio is not scaled to a percentage.
utilization_fraction(usage, capacity) ==
    IF FGreater(capacity, FZero) THEN TrueDiv(usage, capacity) ELSE Ok(FZero)

\* (usage / capacity * 100) if capacity > 0 else 0
utilization(usage, capacity) ==
    IF FGreater(capacity, FZero)
    THEN PyMul(TrueDiv(usage, capacity), FInt(100))
    ELSE Ok(FZero)

\* Mutant of ToGi: decimal gigabytes.
ToGi_decimal(bytes) == FDiv(bytes, FPow(1000, 3))

\* bytes / (1024**3)
ToGi(bytes) == FDiv(bytes, FPow(1024, 3))

\* The first exception among results rs (in evaluation order), else "none".
RECURSIVE FirstExc(_)
FirstExc(rs) ==
    IF rs = <<>> THEN "none"
    ELSE IF Head(rs).exc # "none" THEN Head(rs).exc ELSE FirstExc(Tail(rs))

\* What one pass of a loop leaves: the exception it raised, or the parsed
\* usage and capacity and the record appended to node_details.
Pass(usage, capacity, util, detail) ==
    IF FirstExc(<<usage, capacity, util>>) # "none"
    THEN [exc |-> FirstExc(<<usage, capacity, util>>)]
    ELSE [exc |-> "none", usage |-> usage.val, capacity |-> capacity.val,
          detail |-> detail]

\* The record a CPU loop appends to node_details.
cpu_detail(node_name, usage, capacity, util) ==
    [node |-> node_name,
     usage_cores |-> round(usage, 3),
     capacity_cores |-> round(capacity, 3),
     utilization_percent |-> round(util, 2)]

\* The record a memory loop appends to node_details.
memory_detail(node_name, usage_bytes, capacity_bytes, util) ==
    [node |-> node_name,
     usage_gi |-> round(ToGi(usage_bytes), 2),
     capacity_gi |-> round(ToGi(capacity_bytes), 2),
     utilization_percent |-> round(util, 2)]

CpuPass(node_name, usage, capacity, util) ==
    Pass(usage, capacity, util,
         cpu_detail(node_name, usage.val, capacity.val, util.val))

MemoryPass(node_name, usage_bytes, capacity_bytes, util) ==
    Pass(usage_bytes, capacity_bytes, util,
         memory_detail(node_name, usage_bytes.val, capacity_bytes.val, util.val))

CpuParsed(node_name, usage, capacity) ==
    CpuPass(node_name, usage, capacity, utilization(usage.val, capacity.val))

MemoryParsed(node_name, usage_bytes, capacity_bytes) ==
    MemoryPass(node_name, usage_bytes, capacity_bytes,
               utilization(usage_bytes.val, capacity_bytes.val))

\* node_capacities.get(node_name, {}).get(resource, '0')
capacity_str(node_capacities, node_name, resource) ==
    DictGet(DictGet(node_capacities, node_name, EmptyDict), resource, <<"0">>)

\* One pass of the get_cluster_cpu loop of k8s_mcp_server.py on item.
mcp_cpu_item(item, node_capacities) ==
    CpuParsed(item.name,
              parse_quantity(item.usage.cpu),
              parse_quantity(capacity_str(node_capacities, item.name, "cpu")))

\* One pass of the get_cluster_memory loop of k8s_mcp_server.py.
mcp_memory_item(item, node_capacities) ==
    MemoryParsed(item.name,
                 parse_quantity(item.usage.memory),
                 parse_quantity(capacity_str(node_capacities, item.name, "memory")))

\* One pass of the loop of get_cluster_cpu of unified_server.py.
http_cpu_item(item, node_capacities) ==
    CpuParsed(item.name,
              unified_parse_quantity(item.usage.cpu),
              unified_parse_quantity(
                  capacity_str(node_capacities, item.name, "cpu")))

\* One pass of the loop of get_cluster_memory of unified_server.py.
http_memory_item(item, node_capacities) ==
    MemoryParsed(item.name,
                 unified_parse_quantity(item.usage.memory),
                 unified_parse_quantity(
                     capacity_str(node_capacities, item.name, "memory")))

\* The cluster_cpu dict of a result.
cluster_cpu(total_usage, total_capacity, util) ==
    [total_usage_cores |-> round(total_usage, 3),
     total_capacity_cores |-> round(total_capacity, 3),
     utilization_percent |-> round(util, 2)]

\* The cluster_memory dict of a result.
cluster_memory(total_usage, total_capacity, util) ==
    [total_usage_gi |-> round(ToGi(total_usage), 2),
     total_capacity_gi |-> round(ToGi(total_capacity), 2),
     utilization_percent |-> round(util, 2)]

CpuBuilt(total_usage, total_capacity, node_details, util) ==
    IF util.exc # "none" THEN [exc |-> util.exc]
    ELSE [exc |-> "none",
          result |-> [cluster_cpu |-> cluster_cpu(total_usage, total_capacity,
                                                  util.val),
                      nodes |-> node_details]]

MemoryBuilt(total_usage, total_capacity, node_details, util) ==
    IF util.exc # "none" THEN [exc |-> util.exc]
    ELSE [exc |-> "none",
          result |-> [cluster_memory |-> cluster_memory(total_usage,
                                                        total_capacity, util.val),
                      nodes |-> node_details]]

\* The result dict of get_cluster_cpu in k8s_mcp_server.py.
mcp_cpu_result(total_usage, total_capacity, node_details) ==
    CpuBuilt(total_usage, total_capacity, node_details,
             utilization(total_usage, total_capacity))

\* The result dict of get_cluster_memory in k8s_mcp_server.py.
mcp_memory_result(total_usage, total_capacity, node_details) ==
    MemoryBuilt(total_usage, total_capacity, node_details,
                utilization(total_usage, total_capacity))

\* The dict returned by get_cluster_cpu of unified_server.py.
http_cpu_result(total_usage, total_capacity, node_details) ==
    CpuBuilt(total_usage, total_capacity, node_details,
             utilization(total_usage, total_capacity))

\* The dict returned by get_cluster_memory of unified_server.py.
http_memory_result(total_usage, total_capacity, node_details) ==
    MemoryBuilt(total_usage, total_capacity, node_details,
                utilization(total_usage, total_capacity))

(***************************************************************************)
(* The servers.  A run is one server process: its module load, then        *)
(* requests for the cluster CPU or memory aggregate, one at a time.        *)
(***************************************************************************)
Servers == {"http", "mcp"}

\* The endpoints /k8s/cluster/cpu and /k8s/cluster/memory of the HTTP server
\* are served by functions with the names of the two tools.
ToolNames == {"get_cluster_cpu", "get_cluster_memory"}

Unloaded(server) ==
    [server |-> server, loaded |-> FALSE, tried |-> <<>>, config |-> "none",
     v1 |-> "None", metrics_api |-> "None", k8s_enabled |-> FALSE]

NoResult == [none |-> TRUE]

NoResponse ==
    [kind |-> "none", status |-> 0, error |-> "", type |-> "", result |-> NoResult]

\* What a handler answered.  kind "json": the HTTP handler returned a dict;
\* "http_exception": it raised HTTPException(status, detail = error);
\* "unhandled": an exception of the given type escaped it; "text": call_tool
\* returned one TextContent, holding the result or an error object.
Response(kind, status, error, type, result) ==
    [kind |-> kind, status |-> status, error |-> error, type |-> type,
     result |-> result]

Idle ==
    [pc |-> "idle", name |-> "", arguments |-> EmptyDict, items |-> <<>>,
     nodes_metrics |-> <<>>,
     api_calls |-> <<>>, node_capacities |-> EmptyDict, i |-> 0,
     total_usage |-> FZero,
     total_capacity |-> FZero, node_details |-> <<>>, response |-> NoResponse]

Done(r, response) == [r EXCEPT !.pc = "done", !.response = response]

\* The request once a cluster API call has answered with status (200: it
\* returned); api_calls records the calls the request has made.
Called(r, api, status) ==
    [r EXCEPT !.api_calls = Append(r.api_calls, [api |-> api, status |-> status])]

\* Mutant of Initialized: k8s_enabled = True is assigned once a configuration
\* loaded, before the handles are built.
Initialized_enabled_early(k, incluster_ok, kubeconfig_ok, api_ok) ==
    LET tried == IF incluster_ok THEN <<"incluster">>
                 ELSE <<"incluster", "kubeconfig">>
        configured == incluster_ok \/ kubeconfig_ok
    IN  [k EXCEPT !.loaded = TRUE,
                  !.tried = tried,
                  !.config = IF incluster_ok THEN "incluster"
                             ELSE IF kubeconfig_ok THEN "kubeconfig"
                             ELSE "none",
                  !.v1 = IF configured /\ api_ok THEN "CoreV1Api" ELSE "None",
                  !.metrics_api = IF configured /\ api_ok
                                  THEN "CustomObjectsApi" ELSE "None",
                  !.k8s_enabled = configured /\ k.server = "http"]

\* The module's names after the initialization block ran.  tried lists the
\* configuration loaders called, in order; api_ok: the constructors
\* client.CoreV1Api() and client.CustomObjectsApi() returned.  k8s_enabled is
\* a name of unified_server.py only.
Initialized(k, incluster_ok, kubeconfig_ok, api_ok) ==
    LET tried == IF incluster_ok THEN <<"incluster">>
                 ELSE <<"incluster", "kubeconfig">>
        configured == incluster_ok \/ kubeconfig_ok
    IN  [k EXCEPT !.loaded = TRUE,
                  !.tried = tried,
                  !.config = IF incluster_ok THEN "incluster"
                             ELSE IF kubeconfig_ok THEN "kubeconfig"
                             ELSE "none",
                  !.v1 = IF configured /\ api_ok THEN "CoreV1Api" ELSE "None",
                  !.metrics_api = IF configured /\ api_ok
                                  THEN "CustomObjectsApi" ELSE "None",
                  !.k8s_enabled = configured /\ api_ok /\ k.server = "http"]

\* Module-level client initialization: in-cluster configuration first, then
\* kubeconfig; the handles are None when both fail or a constructor raises.
LoadModule ==
    /\ ~k8s.loaded
    /\ \E incluster_ok \in BOOLEAN, kubeconfig_ok \in BOOLEAN, api_ok \in BOOLEAN :
          k8s' = Initialized(k8s, incluster_ok, kubeconfig_ok, api_ok)
    /\ UNCHANGED <<pq_in, pq_out, req, reqs, boot, rag>>

\* Mutant of guarded: the handler of the cluster information lacks the check.
guarded_except_info(name) ==
    /\ k8s.server = "mcp" \/ name # "health"
    /\ name # "get_cluster_info"

\* The handlers that open with the client check: every /k8s/* endpoint of the
\* HTTP server, and call_tool (whatever the tool name); /health has none.
guarded(name) == k8s.server = "mcp" \/ name # "health"

\* `not k8s_enabled` in the HTTP server, `not v1` in call_tool.
ClientMissing == IF k8s.server = "http" THEN ~k8s.k8s_enabled ELSE k8s.v1 = "None"

\* An operation with these arguments was called.
Arrived(name, arguments) == [Idle EXCEPT !.name = name, !.arguments = arguments]

\* The answer of the client check when the client is missing.
Refusal ==
    IF k8s.server = "http"
    THEN Response("http_exception", 503, "K8s client not available", "", NoResult)
    ELSE Response("text", 0, "Kubernetes client not initialized. Check kubeconfig.",
                  "", NoResult)

\* The handler of r refuses to go on.
Refused(r) == guarded(r.name) /\ ClientMissing

\* Python truthiness of an optional string argument.
Truthy(v) == v \notin {"None", ""}

\* The client check that opens the handlers of the cluster CPU and memory
\* aggregates: `if not k8s_enabled` in the HTTP server, `if not v1` in call_tool.
Received(name) ==
    IF Refused(Arrived(name, EmptyDict))
    THEN Done(Arrived(name, EmptyDict), Refusal)
    ELSE [Arrived(name, EmptyDict) EXCEPT !.pc = "list_metrics"]

\* A request for the cluster CPU or memory aggregate arrives.
Receive ==
    /\ k8s.loaded
    /\ req.pc = "idle"
    /\ \E name \in ToolNames : req' = Received(name)
    /\ UNCHANGED <<pq_in, pq_out, k8s, reqs, boot, rag>>

\* `except ApiException as e` of handler name, for an exception with this
\* status.
OnApiException(name, status) ==
    IF k8s.server = "http"
    THEN IF status = 404
         THEN Response("http_exception", 404, "Metrics server not available", "",
                       NoResult)
         ELSE Response("http_exception", 500, "ApiException", "", NoResult)
    ELSE IF status = 404
         THEN Response("text", 0,
                  IF name = "get_cluster_cpu"
                  THEN "Metrics server not available. Install metrics-server in your cluster."
                  ELSE "Metrics server not available",
                  "", NoResult)
         ELSE Response("text", 0, "ApiException", "ApiException", NoResult)

\* Mutant of OnOtherException: call_tool has no outer except either.
OnOtherException_raise(type) == Response("unhandled", 500, type, type, NoResult)

\* An exception that is no ApiException leaves the inner try: the HTTP handler
\* does not catch it, call_tool's outer `except Exception` answers with an
\* error object carrying its type.
OnOtherException(type) ==
    IF k8s.server = "http"
    THEN Response("unhandled", 500, type, type, NoResult)
    ELSE Response("text", 0, type, type, NoResult)

\* metrics_api.list_cluster_custom_object(...plural="nodes") returned items;
\* the totals and node_details are initialized.
MetricsListed(r, items) ==
    [Called(r, "list_cluster_custom_object", 200)
        EXCEPT !.pc = "list_node", !.nodes_metrics = items,
               !.total_usage = FZero, !.total_capacity = FZero,
               !.node_details = <<>>]

\* Mutant of ApiFailed: the exception is swallowed and the handler goes on
\* with no samples.
ApiFailed_swallowed(r, api, status) ==
    [Called(r, api, status) EXCEPT !.pc = "loop", !.i = 1]

\* A cluster API call of request r raised ApiException(status).
ApiFailed(r, api, status) ==
    Called(Done(r, OnApiException(r.name, status)), api, status)

\* A cluster API call of request r raised an exception of this type, which is
\* no ApiException (status 0: there was no answer).
ApiUnreachable(r, api, type) ==
    Called(Done(r, OnOtherException(type)), api, 0)

\* The first statement of the try block: the metrics listing.
ListMetrics ==
    /\ req.pc = "list_metrics"
    /\ \/ \E items \in MetricsListings : req' = MetricsListed(req, items)
       \/ \E status \in ApiErrorStatuses :
             req' = ApiFailed(req, "list_cluster_custom_object", status)
       \/ \E type \in ConnectionErrors :
             req' = ApiUnreachable(req, "list_cluster_custom_object", type)
    /\ UNCHANGED <<pq_in, pq_out, k8s, reqs, boot, rag>>

\* v1.list_node() returned; node_capacities is built from it.
NodesListed(r, inventory) ==
    [Called(r, "list_node", 200)
        EXCEPT !.pc = "loop", !.node_capacities = inventory, !.i = 1]

\* v1.list_node() and the node_capacities dict built from it.
ListNode ==
    /\ req.pc = "list_node"
    /\ \/ \E inventory \in Inventories : req' = NodesListed(req, inventory)
       \/ \E status \in ApiErrorStatuses :
             req' = ApiFailed(req, "list_node", status)
       \/ \E type \in ConnectionErrors :
             req' = ApiUnreachable(req, "list_node", type)
    /\ UNCHANGED <<pq_in, pq_out, k8s, reqs, boot, rag>>

\* The loop body of handler name of server, on item.
item_pass(server, name, item, node_capacities) ==
    IF server = "http"
    THEN IF name = "get_cluster_cpu"
         THEN http_cpu_item(item, node_capacities)
         ELSE http_memory_item(item, node_capacities)
    ELSE IF name = "get_cluster_cpu"
         THEN mcp_cpu_item(item, node_capacities)
         ELSE mcp_memory_item(item, node_capacities)

\* The loop body of the handler that serves r, on the item the loop is at.
LoopBody(r) ==
    item_pass(k8s.server, r.name, r.nodes_metrics[r.i], r.node_capacities)

\* Mutant of Accumulate: the totals are assigned, not added to.
Accumulate_overwrite(r, step) ==
    [r EXCEPT !.total_usage = step.usage,
              !.total_capacity = step.capacity,
              !.node_details = Append(r.node_details, step.detail),
              !.i = r.i + 1]

\* Mutant of Accumulate: the record is put in front of node_details.
Accumulate_prepend(r, step) ==
    [r EXCEPT !.total_usage = FAdd(r.total_usage, step.usage),
              !.total_capacity = FAdd(r.total_capacity, step.capacity),
              !.node_details = <<step.detail>> \o r.node_details,
              !.i = r.i + 1]

\* Mutant of Accumulate: the totals add up the figures as the records show
\* them, rounded to 3 decimals.
Accumulate_rounded(r, step) ==
    [r EXCEPT !.total_usage = FAdd(r.total_usage, round(step.usage, 3)),
              !.total_capacity = FAdd(r.total_capacity, round(step.capacity, 3)),
              !.node_details = Append(r.node_details, step.detail),
              !.i = r.i + 1]

\* total_usage += usage; total_capacity += capacity; node_details.append(...)
Accumulate(r, step) ==
    [r EXCEPT !.total_usage = FAdd(r.total_usage, step.usage),
              !.total_capacity = FAdd(r.total_capacity, step.capacity),
              !.node_details = Append(r.node_details, step.detail),
              !.i = r.i + 1]

\* Mutant of AfterPass: a pass that raised is skipped, its sample counts for
\* nothing and the loop goes on.
AfterPass_skip(r, step) ==
    IF step.exc # "none" THEN [r EXCEPT !.i = r.i + 1]
    ELSE Accumulate(r, step)

\* The request after a pass of the loop: the exception leaves the handler, or
\* the loop goes on.
AfterPass(r, step) ==
    IF step.exc # "none" THEN Done(r, OnOtherException(step.exc))
    ELSE Accumulate(r, step)

\* One iteration of `for item in nodes_metrics.get('items', [])`.
LoopStep ==
    /\ req.pc = "loop"
    /\ req.i <= Len(req.nodes_metrics)
    /\ req' = AfterPass(req, LoopBody(req))
    /\ UNCHANGED <<pq_in, pq_out, k8s, reqs, boot, rag>>

\* The result handler name of server builds after its loop.
handler_result(server, name, total_usage, total_capacity, node_details) ==
    IF server = "http"
    THEN IF name = "get_cluster_cpu"
         THEN http_cpu_result(total_usage, total_capacity, node_details)
         ELSE http_memory_result(total_usage, total_capacity, node_details)
    ELSE IF name = "get_cluster_cpu"
         THEN mcp_cpu_result(total_usage, total_capacity, node_details)
         ELSE mcp_memory_result(total_usage, total_capacity, node_details)

\* The result of the handler that serves r, built after the loop.
BuildResult(r) ==
    handler_result(k8s.server, r.name, r.total_usage, r.total_capacity,
                   r.node_details)

\* The HTTP handler returns the dict; call_tool returns it as JSON text.
Answer(r, built) ==
    IF built.exc # "none" THEN Done(r, OnOtherException(built.exc))
    ELSE IF k8s.server = "http"
         THEN Done(r, Response("json", 200, "", "", built.result))
    ELSE Done(r, Response("text", 0, "", "", built.result))

\* The loop is over: the aggregate is built and returned.
Return ==
    /\ req.pc = "loop"
    /\ req.i > Len(req.nodes_metrics)
    /\ req' = Answer(req, BuildResult(req))
    /\ UNCHANGED <<pq_in, pq_out, k8s, reqs, boot, rag>>

\* The answer is handed to the caller; the locals of the request are gone.
Deliver ==
    /\ req.pc = "done"
    /\ req' = Idle
    /\ UNCHANGED <<pq_in, pq_out, k8s, reqs, boot, rag>>

(***************************************************************************)
(* The other operations of the servers.  Each is one step: the client      *)
(* check, the cluster API calls of the handler, and its answer.            *)
(***************************************************************************)
\* How a call of the cluster API ends: it returns, it raises ApiException
\* with a status of ApiErrorStatuses, or it raises an exception of
\* ConnectionErrors.
Returned == [kind |-> "ok", status |-> 200, type |-> ""]

RaisedApiException(status) ==
    [kind |-> "status", status |-> status, type |-> "ApiException"]

RaisedOther(type) == [kind |-> "exception", status |-> 0, type |-> type]

CallEnds ==
    {Returned} \cup {RaisedApiException(status) : status \in ApiErrorStatuses}
               \cup {RaisedOther(type) : type \in ConnectionErrors}

\* Request r once it made the calls apis, which ended with ends: the calls
\* after the first that raised are not made.
RECURSIVE CallsMade(_, _, _)
CallsMade(r, apis, ends) ==
    IF apis = <<>> THEN r
    ELSE IF Head(ends).kind = "ok"
         THEN CallsMade(Called(r, Head(apis), 200), Tail(apis), Tail(ends))
    ELSE Called(r, Head(apis), Head(ends).status)

\* The first end among ends that is a failure, Returned when all calls returned.
RECURSIVE FirstFailure(_)
FirstFailure(ends) ==
    IF ends = <<>> THEN Returned
    ELSE IF Head(ends).kind # "ok" THEN Head(ends) ELSE FirstFailure(Tail(ends))

(***************************************************************************)
(* get_pod_metrics of the tool-call server.                                *)
(***************************************************************************)
Container(name, usage) == [name |-> name, usage |-> usage]

PodItem(name, namespace, containers) ==
    [name |-> name, namespace |-> namespace, containers |-> containers]

\* The pods a cluster may run, in the order the metrics API lists them: web
\* and db in namespace default, web and batch in prod; the usage of batch is
\* one parse_quantity rejects.
AllPods ==
    << PodItem("web", "default",
               << Container("app", S(<<"2", "5", "0", "m">>, <<"6", "4", "M", "i">>)),
                  Container("sidecar", S(<<"4", "0", "0", "0", "0", "0", "n">>,
                                         <<"5", "M", "i">>)) >>),
       PodItem("db", "default",
               << Container("db", S(<<"8">>, <<"2", "G", "i">>)) >>),
       PodItem("web", "prod",
               << Container("app", S(<<"1", "2">>, <<"1", "2", "G", "i">>)) >>),
       PodItem("batch", "prod",
               << Container("job", S(<<"5", "u">>, <<"1", "P", "i">>)) >>) >>

RECURSIVE SubSeqsOf(_)
SubSeqsOf(s) ==
    IF s = <<>> THEN {<<>>}
    ELSE LET rest == SubSeqsOf(Tail(s))
         IN  rest \cup {<<Head(s)>> \o t : t \in rest}

\* The pods of the cluster when the request arrives.
Clusters == SubSeqsOf(AllPods)

RECURSIVE PodsWhere(_, _, _)
\* The pods of cluster in namespace (any when "all") with name (any when "").
PodsWhere(cluster, namespace, name) ==
    IF cluster = <<>> THEN <<>>
    ELSE IF /\ namespace \in {"all", Head(cluster).namespace}
            /\ name \in {"", Head(cluster).name}
         THEN <<Head(cluster)>> \o PodsWhere(Tail(cluster), namespace, name)
    ELSE PodsWhere(Tail(cluster), namespace, name)

\* The arguments dict of a get_pod_metrics call: keys may be absent.
Arguments(namespace, pod_name) ==
    [k \in (IF namespace = "absent" THEN {} ELSE {"namespace"})
              \cup (IF pod_name = "absent" THEN {} ELSE {"pod_name"})
        |-> IF k = "namespace" THEN namespace ELSE pod_name]

PodMetricsArguments ==
    { Arguments(ns, pn) : ns \in {"absent", "all", "default", "prod"},
                          pn \in {"absent", "", "web", "ghost"} }

\* namespace = arguments.get("namespace", "all")
namespace_of(arguments) == DictGet(arguments, "namespace", "all")

\* pod_name = arguments.get("pod_name")
pod_name_of(arguments) == DictGet(arguments, "pod_name", "None")

\* The metrics API call get_pod_metrics makes for these arguments.
pod_metrics_api(arguments) ==
    IF namespace_of(arguments) = "all" THEN "list_cluster_custom_object"
    ELSE IF Truthy(pod_name_of(arguments)) THEN "get_namespaced_custom_object"
    ELSE "list_namespaced_custom_object"

\* How that call ends on cluster when the metrics API answers: the read of a
\* pod the namespace lacks raises ApiException(404).
pod_metrics_end(arguments, cluster) ==
    IF /\ pod_metrics_api(arguments) = "get_namespaced_custom_object"
       /\ PodsWhere(cluster, namespace_of(arguments), pod_name_of(arguments)) = <<>>
    THEN RaisedApiException(404)
    ELSE Returned

\* items of get_pod_metrics once the call returned.
pod_metrics_items(arguments, cluster) ==
    IF pod_metrics_api(arguments) = "list_cluster_custom_object"
    THEN cluster
    ELSE IF pod_metrics_api(arguments) = "get_namespaced_custom_object"
    THEN PodsWhere(cluster, namespace_of(arguments), pod_name_of(arguments))
    ELSE PodsWhere(cluster, namespace_of(arguments), "")

\* One entry of containers_metrics.
container_metrics(container, cpu, mem) ==
    [name |-> container.name,
     cpu_cores |-> round(cpu, 3),
     memory_mi |-> round(FDiv(mem, FPow(1024, 2)), 2)]

NoContainers ==
    [exc |-> "none", total_cpu |-> FZero, total_mem |-> FZero,
     containers_metrics |-> <<>>]

RECURSIVE containers_loop(_, _)
container_step(containers, acc, cpu, mem) ==
    IF FirstExc(<<cpu, mem>>) # "none" THEN [exc |-> FirstExc(<<cpu, mem>>)]
    ELSE containers_loop(
            Tail(containers),
            [exc |-> "none",
             total_cpu |-> FAdd(acc.total_cpu, cpu.val),
             total_mem |-> FAdd(acc.total_mem, mem.val),
             containers_metrics |->
                 Append(acc.containers_metrics,
                        container_metrics(Head(containers), cpu.val, mem.val))])

\* `for container in item.get('containers', [])`
containers_loop(containers, acc) ==
    IF containers = <<>> THEN acc
    ELSE container_step(containers, acc,
                        parse_quantity(Head(containers).usage.cpu),
                        parse_quantity(Head(containers).usage.memory))

\* The record get_pod_metrics appends to result for item.
pod_record(item, acc) ==
    [name |-> item.name,
     namespace |-> item.namespace,
     total_cpu_cores |-> round(acc.total_cpu, 3),
     total_memory_mi |-> round(FDiv(acc.total_mem, FPow(1024, 2)), 2),
     containers |-> acc.containers_metrics]

RECURSIVE pods_loop(_, _)
pod_step(items, result, acc) ==
    IF acc.exc # "none" THEN [exc |-> acc.exc]
    ELSE pods_loop(Tail(items), Append(result, pod_record(Head(items), acc)))

\* `for item in items`, then {"count": len(result), "pods": result}
pods_loop(items, result) ==
    IF items = <<>>
    THEN [exc |-> "none", result |-> [count |-> Len(result), pods |-> result]]
    ELSE pod_step(items, result, containers_loop(Head(items).containers, NoContainers))

\* get_pod_metrics of call_tool on request r, once its API call ended with end.
get_pod_metrics(r, api, end, items) ==
    IF end.kind = "ok"
    THEN Answer([Called(r, api, 200) EXCEPT !.items = items], pods_loop(items, <<>>))
    ELSE IF end.kind = "status" /\ end.status = 404
    THEN Done(Called(r, api, 404),
              Response("text", 0, "Metrics server not available or pod not found",
                       "", NoResult))
    ELSE Done(Called(r, api, end.status), OnOtherException(end.type))

\* The call of get_pod_metrics with these arguments on this cluster; fail is
\* how the metrics API fails, Returned when it answers.
PodMetricsServed(r, cluster, fail) ==
    IF Refused(r) THEN Done(r, Refusal)
    ELSE get_pod_metrics(r, pod_metrics_api(r.arguments),
                         IF fail.kind = "ok"
                         THEN pod_metrics_end(r.arguments, cluster)
                         ELSE fail,
                         pod_metrics_items(r.arguments, cluster))

GetPodMetrics ==
    /\ k8s.loaded
    /\ k8s.server = "mcp"
    /\ req.pc = "idle"
    /\ \E arguments \in PodMetricsArguments, cluster \in Clusters, fail \in CallEnds :
          req' = PodMetricsServed(Arrived("get_pod_metrics", arguments), cluster, fail)
    /\ UNCHANGED <<pq_in, pq_out, k8s, reqs, boot, rag>>

(***************************************************************************)
(* get_node_metrics of the tool-call server.                               *)
(***************************************************************************)
\* The arguments dict of a get_node_metrics call.
NodeMetricsArguments ==
    {EmptyDict} \cup {[key \in {"node_name"} |-> nm] : nm \in {"", "a", "ghost"}}

\* node_name = arguments.get("node_name")
node_name_of(arguments) == DictGet(arguments, "node_name", "None")

\* The metrics API call get_node_metrics makes for these arguments.
node_metrics_api(arguments) ==
    IF Truthy(node_name_of(arguments)) THEN "get_cluster_custom_object"
    ELSE "list_cluster_custom_object"

RECURSIVE NodesNamed(_, _)
\* The items of listing with this name.
NodesNamed(listing, name) ==
    IF listing = <<>> THEN <<>>
    ELSE IF Head(listing).name = name
         THEN <<Head(listing)>> \o NodesNamed(Tail(listing), name)
    ELSE NodesNamed(Tail(listing), name)

\* How the metrics call ends when the metrics API answers: the read of a node
\* it does not know raises ApiException(404).
node_metrics_end(arguments, listing) ==
    IF /\ Truthy(node_name_of(arguments))
       /\ NodesNamed(listing, node_name_of(arguments)) = <<>>
    THEN RaisedApiException(404)
    ELSE Returned

\* nodes_data of get_node_metrics once the metrics call returned.
nodes_data(arguments, listing) ==
    IF Truthy(node_name_of(arguments))
    THEN SubSeq(NodesNamed(listing, node_name_of(arguments)), 1, 1)
    ELSE listing

\* The record get_node_metrics appends for a node (the status and pods entries,
\* copied from the inventory, are left out).
node_record(name, cpu_usage, cpu_capacity, mem_usage, mem_capacity, cpu_util, mem_util) ==
    [name |-> name,
     cpu |-> [usage_cores |-> round(cpu_usage, 3),
              capacity_cores |-> round(cpu_capacity, 3),
              utilization_percent |-> round(cpu_util, 2)],
     memory |-> [usage_gi |-> round(ToGi(mem_usage), 2),
                 capacity_gi |-> round(ToGi(mem_capacity), 2),
                 utilization_percent |-> round(mem_util, 2)]]

RECURSIVE node_metrics_loop(_, _, _)
node_utilized(items, node_info, result, cpu_usage, cpu_capacity, mem_usage, mem_capacity, cpu_util, mem_util) ==
    IF FirstExc(<<cpu_util, mem_util>>) # "none"
    THEN [exc |-> FirstExc(<<cpu_util, mem_util>>)]
    ELSE node_metrics_loop(
            Tail(items), node_info,
            Append(result,
                   node_record(Head(items).name, cpu_usage, cpu_capacity, mem_usage,
                               mem_capacity, cpu_util.val, mem_util.val)))

node_parsed(items, node_info, result, cpu_usage, cpu_capacity, mem_usage, mem_capacity) ==
    IF FirstExc(<<cpu_usage, cpu_capacity, mem_usage, mem_capacity>>) # "none"
    THEN [exc |-> FirstExc(<<cpu_usage, cpu_capacity, mem_usage, mem_capacity>>)]
    ELSE node_utilized(items, node_info, result, cpu_usage.val, cpu_capacity.val,
                       mem_usage.val, mem_capacity.val,
                       utilization(cpu_usage.val, cpu_capacity.val),
                       utilization(mem_usage.val, mem_capacity.val))

\* `for item in nodes_data`: a node the inventory lacks is skipped.
node_metrics_loop(items, node_info, result) ==
    IF items = <<>> THEN [exc |-> "none", result |-> [nodes |-> result]]
    ELSE IF Head(items).name \notin DOMAIN node_info
    THEN node_metrics_loop(Tail(items), node_info, result)
    ELSE node_parsed(items, node_info, result,
                     parse_quantity(Head(items).usage.cpu),
                     parse_quantity(node_info[Head(items).name].cpu),
                     parse_quantity(Head(items).usage.memory),
                     parse_quantity(node_info[Head(items).name].memory))

\* `except ApiException` of get_node_metrics, and call_tool's outer except.
node_metrics_failed(r, end) ==
    IF end.kind = "status" /\ end.status = 404
    THEN Done(r, Response("text", 0,
                          "Metrics server not available or node not found", "",
                          NoResult))
    ELSE Done(r, Response("text", 0, end.type, end.type, NoResult))

\* get_node_metrics of call_tool on request r: the metrics call ended with
\* metrics_end and, when it returned, v1.list_node() ended with nodes_end.
get_node_metrics(r, metrics_end, nodes_end, items, node_info) ==
    IF metrics_end.kind # "ok"
    THEN node_metrics_failed(
            Called(r, node_metrics_api(r.arguments), metrics_end.status), metrics_end)
    ELSE IF nodes_end.kind # "ok"
    THEN node_metrics_failed(
            Called(Called(r, node_metrics_api(r.arguments), 200), "list_node",
                   nodes_end.status),
            nodes_end)
    ELSE Answer([Called(Called(r, node_metrics_api(r.arguments), 200),
                        "list_node", 200)
                    EXCEPT !.items = items, !.node_capacities = node_info],
                node_metrics_loop(items, node_info, <<>>))

\* The call of get_node_metrics on a cluster with this metrics listing and this
\* inventory; fail is how the metrics API fails, Returned when it answers.
NodeMetricsServed(r, listing, node_info, fail, nodes_end) ==
    IF Refused(r) THEN Done(r, Refusal)
    ELSE get_node_metrics(r,
                          IF fail.kind = "ok"
                          THEN node_metrics_end(r.arguments, listing)
                          ELSE fail,
                          nodes_end,
                          nodes_data(r.arguments, listing), node_info)

GetNodeMetrics ==
    /\ k8s.loaded
    /\ k8s.server = "mcp"
    /\ req.pc = "idle"
    /\ \E arguments \in NodeMetricsArguments :
          \/ \E fail \in CallEnds \ {Returned} :
                req' = NodeMetricsServed(Arrived("get_node_metrics", arguments),
                                         <<>>, EmptyDict, fail, Returned)
          \/ \E listing \in MetricsListings, nodes_end \in CallEnds \ {Returned} :
                req' = NodeMetricsServed(Arrived("get_node_metrics", arguments),
                                         listing, EmptyDict, Returned, nodes_end)
          \/ \E listing \in MetricsListings, node_info \in Inventories :
                req' = NodeMetricsServed(Arrived("get_node_metrics", arguments),
                                         listing, node_info, Returned, Returned)
    /\ UNCHANGED <<pq_in, pq_out, k8s, reqs, boot, rag>>

(***************************************************************************)
(* The listings: get_pods and get_cluster_info of both servers,            *)
(* get_namespaces and the unknown tool of call_tool, /health.              *)
(***************************************************************************)
\* What the caller passes to get_pods: namespace and label_selector, each
\* possibly left out.
PodsArguments ==
    {EmptyDict,
     [key \in {"namespace"} |-> "default"],
     [key \in {"label_selector"} |-> "app=web"],
     [key \in {"namespace", "label_selector"} |->
         IF key = "namespace" THEN "all" ELSE ""]}

\* The cluster API calls of a listing handler, in the order it makes them.
listing_apis(name, arguments) ==
    IF name = "get_pods"
    THEN IF DictGet(arguments, "namespace", "all") = "all"
         THEN <<"list_pod_for_all_namespaces">>
         ELSE <<"list_namespaced_pod">>
    ELSE IF name = "get_cluster_info"
    THEN <<"get_code", "list_node", "list_namespace">>
    ELSE IF name = "get_namespaces"
    THEN <<"list_namespace">>
    ELSE <<>>

\* Mutant of unknown_tool: the tool name is not reported.
unknown_tool_silent(name) == Response("text", 0, "", "", NoResult)

\* The else branch of call_tool: {"error": f"Unknown tool: {name}"}.
unknown_tool(name) ==
    Response("text", 0, "Unknown tool", "", [name |-> name])

\* What a listing handler returns once all its calls returned; sizes[k] is the
\* number of items the k-th call returned (the entries copied from the items
\* are left out).
listing_result(server, name, sizes) ==
    IF name = "get_cluster_info"
    THEN IF server = "http"
         THEN [version |-> "git_version", nodes_count |-> sizes[2],
               namespaces_count |-> sizes[3], k8s_enabled |-> TRUE]
         ELSE [version |-> "git_version", nodes |-> [count |-> sizes[2]],
               namespaces_count |-> sizes[3]]
    ELSE [count |-> sizes[1]]

\* `except Exception as e` of a listing handler: HTTPException(500, str(e)) in
\* the HTTP server, the error object of call_tool's outer except.
listing_failed(end) ==
    IF k8s.server = "http"
    THEN Response("http_exception", 500, end.type, "", NoResult)
    ELSE Response("text", 0, end.type, end.type, NoResult)

\* Names a caller may pass to call_tool that are none of its tools.
UnknownNames == {"restart_pod", "health", ""}

\* A listing handler on request r; ends are the ends of its calls.
listing(r, ends, sizes) ==
    IF FirstFailure(SubSeq(ends, 1, Len(listing_apis(r.name, r.arguments)))).kind = "ok"
    THEN Done(CallsMade(r, listing_apis(r.name, r.arguments), ends),
              Response(IF k8s.server = "http" THEN "json" ELSE "text",
                       IF k8s.server = "http" THEN 200 ELSE 0, "", "",
                       listing_result(k8s.server, r.name, sizes)))
    ELSE Done(CallsMade(r, listing_apis(r.name, r.arguments), ends),
              listing_failed(
                  FirstFailure(SubSeq(ends, 1,
                                      Len(listing_apis(r.name, r.arguments))))))

\* The client check, then the handler.
ListingServed(r, ends, sizes) ==
    IF Refused(r) THEN Done(r, Refusal) ELSE listing(r, ends, sizes)

\* GET /k8s/pods, and the tool get_pods.
GetPods ==
    /\ k8s.loaded
    /\ req.pc = "idle"
    /\ \E arguments \in PodsArguments, end \in CallEnds, size \in 0..MaxItems :
          req' = ListingServed(Arrived("get_pods", arguments), <<end>>, <<size>>)
    /\ UNCHANGED <<pq_in, pq_out, k8s, reqs, boot, rag>>

\* GET /k8s/cluster/info, and the tool get_cluster_info.
GetClusterInfo ==
    /\ k8s.loaded
    /\ req.pc = "idle"
    /\ \E ends \in [1..3 -> CallEnds], sizes \in [1..3 -> 0..MaxItems] :
          req' = ListingServed(Arrived("get_cluster_info", EmptyDict), ends, sizes)
    /\ UNCHANGED <<pq_in, pq_out, k8s, reqs, boot, rag>>

\* The tool get_namespaces.
GetNamespaces ==
    /\ k8s.loaded
    /\ k8s.server = "mcp"
    /\ req.pc = "idle"
    /\ \E end \in CallEnds, size \in 0..MaxItems :
          req' = ListingServed(Arrived("get_namespaces", EmptyDict), <<end>>, <<size>>)
    /\ UNCHANGED <<pq_in, pq_out, k8s, reqs, boot, rag>>

\* call_tool with a name that is none of its tools.
UnknownTool ==
    /\ k8s.loaded
    /\ k8s.server = "mcp"
    /\ req.pc = "idle"
    /\ \E name \in UnknownNames :
          req' = IF Refused(Arrived(name, EmptyDict))
                 THEN Done(Arrived(name, EmptyDict), Refusal)
                 ELSE Done(Arrived(name, EmptyDict), unknown_tool(name))
    /\ UNCHANGED <<pq_in, pq_out, k8s, reqs, boot, rag>>

\* GET /health: no client check, no cluster call.
Health ==
    /\ k8s.loaded
    /\ k8s.server = "http"
    /\ req.pc = "idle"
    /\ req' = Done(Arrived("health", EmptyDict),
                   Response("json", 200, "", "",
                            [status |-> "ok", k8s_enabled |-> k8s.k8s_enabled]))
    /\ UNCHANGED <<pq_in, pq_out, k8s, reqs, boot, rag>>

Init ==
    /\ pq_in = <<>>
    /\ pq_out = NoCall
    /\ \E server \in Servers : k8s = Unloaded(server)
    /\ req = Idle
    /\ reqs = "none"
    /\ boot = "none"
    /\ rag = "none"

Next ==
    \/ LoadModule
    \/ Receive
    \/ ListMetrics
    \/ ListNode
    \/ LoopStep
    \/ Return
    \/ GetPodMetrics
    \/ GetNodeMetrics
    \/ GetPods
    \/ GetClusterInfo
    \/ GetNamespaces
    \/ UnknownTool
    \/ Health
    \/ Deliver

Spec == Init /\ [][Next]_vars

(***************************************************************************)
(* Several requests in flight at once.  Each call of a handler has its own *)
(* locals (nodes_metrics, total_usage, total_capacity, node_capacities,    *)
(* node_details, the loop position); the calls share the module-level      *)
(* handles of k8s.  The steps of the calls interleave in every order.      *)
(***************************************************************************)
\* Most requests in flight.
MaxRequests == 2

Requests == 1..MaxRequests

Item(name, u) == [name |-> name, usage |-> u]

\* What the metrics listing and the inventory answer while requests overlap.
ConcurrentListings ==
    { <<>>,
      <<Item("a", S(<<"8">>, <<"8", "G", "i">>))>>,
      <<Item("b", S(<<"4", "0", "0", "0", "0", "0", "n">>, <<"5", "M", "i">>)),
        Item("a", S(<<"1", "2">>, <<"1", "2", "G", "i">>))>>,
      <<Item("a", S(<<"5", "u">>, <<"1", "P", "i">>))>> }

ConcurrentInventories ==
    { [nm \in NodeNames |-> S(<<"1", "0">>, <<"1", "0", "G", "i">>)],
      [nm \in {"a"} |-> S(<<"2">>, <<"4", "1", "9", "4", "3", "0", "4", "K", "i">>)] }

\* Mutant of locals_of: the accumulators are module-level, one set for all calls.
locals_of_module(c) == 1

\* The frame holding total_usage, total_capacity and node_details of call c:
\* they are assigned in the handler, so they are locals of the call.
locals_of(c) == c

\* The request of call c as the call sees it.
Load(c) ==
    [reqs[c] EXCEPT !.total_usage = reqs[locals_of(c)].total_usage,
                    !.total_capacity = reqs[locals_of(c)].total_capacity,
                    !.node_details = reqs[locals_of(c)].node_details]

\* The requests once call c has made its request r.
Store(c, r) ==
    [d \in Requests |->
        IF d = c THEN r
        ELSE IF d = locals_of(c)
             THEN [reqs[d] EXCEPT !.total_usage = r.total_usage,
                                  !.total_capacity = r.total_capacity,
                                  !.node_details = r.node_details]
        ELSE reqs[d]]

ConcurrentLoad ==
    /\ LoadModule
    /\ UNCHANGED reqs

ConcurrentReceive(c) ==
    /\ k8s.loaded
    /\ reqs[c].pc = "idle"
    /\ \E name \in ToolNames : reqs' = [reqs EXCEPT ![c] = Received(name)]
    /\ UNCHANGED <<pq_in, pq_out, k8s, req, boot, rag>>

ConcurrentListMetrics(c) ==
    /\ reqs[c].pc = "list_metrics"
    /\ \/ \E items \in ConcurrentListings :
             reqs' = Store(c, MetricsListed(Load(c), items))
       \/ \E status \in ApiErrorStatuses :
             reqs' = [reqs EXCEPT ![c] =
                         ApiFailed(reqs[c], "list_cluster_custom_object", status)]
    /\ UNCHANGED <<pq_in, pq_out, k8s, req, boot, rag>>

ConcurrentListNode(c) ==
    /\ reqs[c].pc = "list_node"
    /\ \/ \E inventory \in ConcurrentInventories :
             reqs' = [reqs EXCEPT ![c] = NodesListed(reqs[c], inventory)]
       \/ \E status \in ApiErrorStatuses :
             reqs' = [reqs EXCEPT ![c] = ApiFailed(reqs[c], "list_node", status)]
    /\ UNCHANGED <<pq_in, pq_out, k8s, req, boot, rag>>

ConcurrentLoopStep(c) ==
    /\ reqs[c].pc = "loop"
    /\ reqs[c].i <= Len(reqs[c].nodes_metrics)
    /\ reqs' = Store(c, AfterPass(Load(c), LoopBody(reqs[c])))
    /\ UNCHANGED <<pq_in, pq_out, k8s, req, boot, rag>>

ConcurrentReturn(c) ==
    /\ reqs[c].pc = "loop"
    /\ reqs[c].i > Len(reqs[c].nodes_metrics)
    /\ reqs' = [reqs EXCEPT ![c] = Answer(reqs[c], BuildResult(Load(c)))]
    /\ UNCHANGED <<pq_in, pq_out, k8s, req, boot, rag>>

ConcurrentDeliver(c) ==
    /\ reqs[c].pc = "done"
    /\ reqs' = [reqs EXCEPT ![c] = Idle]
    /\ UNCHANGED <<pq_in, pq_out, k8s, req, boot, rag>>

InitConcurrent ==
    /\ pq_in = <<>>
    /\ pq_out = NoCall
    /\ \E server \in Servers : k8s = Unloaded(server)
    /\ req = Idle
    /\ reqs = [c \in Requests |-> Idle]
    /\ boot = "none"
    /\ rag = "none"

NextConcurrent ==
    \/ ConcurrentLoad
    \/ \E c \in Requests : ConcurrentReceive(c)
    \/ \E c \in Requests : ConcurrentListMetrics(c)
    \/ \E c \in Requests : ConcurrentListNode(c)
    \/ \E c \in Requests : ConcurrentLoopStep(c)
    \/ \E c \in Requests : ConcurrentReturn(c)
    \/ \E c \in Requests : ConcurrentDeliver(c)

SpecConcurrent == InitConcurrent /\ [][NextConcurrent]_vars

(***************************************************************************)
(* Startup.  startup_event of main.py waits for Qdrant and Ollama, creates *)
(* the collection when it does not find it and ingests the sample          *)
(* documents; startup_event of unified_server.py only waits for Qdrant.    *)
(* Qdrant keeps the collection over the restarts of the server.            *)
(***************************************************************************)
max_retries == 30

\* The topics of SAMPLE_DOCUMENTS of main.py, in list order.
SAMPLE_DOCUMENTS == <<"python", "kubernetes", "fastapi", "vector-db", "rag">>

Programs == {"main", "unified"}

\* Restarts of the server a run of the model follows.
MaxRuns == 2

\* How an awaited request of startup ends: answered with status 200, answered
\* with another status, or raised (refused connection, timeout).
ProbeEnds == {"200", "other", "raised"}

\* The locals of startup_event when it is called, next to what Qdrant keeps:
\* whether the collection exists, and the runs that sent ingestion requests.
\* existed: whether Qdrant had the collection when the run checked for it.
Started(program, run, collection, ingest_runs) ==
    [program |-> program, pc |-> "qdrant_probe", i |-> 0, last |-> "none",
     qdrant_probes |-> 0, qdrant_ready |-> FALSE,
     ollama_probes |-> 0, ollama_ready |-> FALSE,
     existed |-> "unset", collection_exists |-> "unset", creates |-> 0,
     created |-> FALSE,
     idx |-> 0, attempts |-> <<>>, inserted |-> <<>>, success_count |-> 0,
     reported |-> -1, exit |-> "running",
     run |-> run, collection |-> collection, ingest_runs |-> ingest_runs]

\* Mutant of in_range: the loop makes one more pass.
in_range_inclusive(i) == i <= max_retries

\* `for i in range(max_retries)`
in_range(i) == i < max_retries

\* Mutant of retries_left: the last probe is followed by a sleep as well.
retries_left_always(i) == TRUE

\* `if i < max_retries - 1`
retries_left(i) == i < max_retries - 1

\* startup_event is over.
Exited(b, exit) == [b EXCEPT !.pc = "done", !.exit = exit]

\* The Qdrant loop is over without a return.
AfterQdrant(b) ==
    IF b.program = "main"
    THEN [b EXCEPT !.pc = "ollama_probe", !.i = 0, !.last = "none"]
    ELSE Exited(b, "complete")

\* The next pass of the Qdrant loop, if any.
NextQdrantPass(b) ==
    IF in_range(b.i + 1) THEN [b EXCEPT !.pc = "qdrant_probe", !.i = b.i + 1]
    ELSE AfterQdrant(b)

\* One pass of the Qdrant loop up to the sleep, the probe having ended with end.
QdrantProbed(b, end) ==
    IF end = "200" THEN AfterQdrant([b EXCEPT !.qdrant_ready = TRUE])
    ELSE IF end = "other" THEN NextQdrantPass(b)
    ELSE IF retries_left(b.i) THEN [b EXCEPT !.pc = "qdrant_sleep"]
    ELSE IF b.program = "main" THEN Exited(b, "qdrant_not_ready")
    ELSE NextQdrantPass(b)

\* r = await client.get(f"{QDRANT_URL}/collections") and what follows it.
QdrantProbe ==
    /\ boot.pc = "qdrant_probe"
    /\ \E end \in ProbeEnds :
          boot' = QdrantProbed([boot EXCEPT !.qdrant_probes = boot.qdrant_probes + 1,
                                            !.last = end],
                               end)
    /\ UNCHANGED <<pq_in, pq_out, k8s, req, reqs, rag>>

\* await asyncio.sleep(2) in the except clause of the Qdrant loop.
QdrantSleep ==
    /\ boot.pc = "qdrant_sleep"
    /\ boot' = NextQdrantPass(boot)
    /\ UNCHANGED <<pq_in, pq_out, k8s, req, reqs, rag>>

\* The next pass of the Ollama loop, if any; the collection check follows it.
NextOllamaPass(b) ==
    IF in_range(b.i + 1) THEN [b EXCEPT !.pc = "ollama_probe", !.i = b.i + 1]
    ELSE [b EXCEPT !.pc = "check_collection"]

\* One pass of the Ollama loop up to the sleep.
OllamaProbed(b, end) ==
    IF end = "200" THEN [b EXCEPT !.pc = "check_collection", !.ollama_ready = TRUE]
    ELSE IF end = "other" THEN NextOllamaPass(b)
    ELSE IF retries_left(b.i) THEN [b EXCEPT !.pc = "ollama_sleep"]
    ELSE Exited(b, "ollama_not_ready")

\* r = await client.get("http://ollama:11434/api/tags") and what follows it.
OllamaProbe ==
    /\ boot.pc = "ollama_probe"
    /\ \E end \in ProbeEnds :
          boot' = OllamaProbed([boot EXCEPT !.ollama_probes = boot.ollama_probes + 1,
                                            !.last = end],
                               end)
    /\ UNCHANGED <<pq_in, pq_out, k8s, req, reqs, rag>>

\* await asyncio.sleep(2) in the except clause of the Ollama loop.
OllamaSleep ==
    /\ boot.pc = "ollama_sleep"
    /\ boot' = NextOllamaPass(boot)
    /\ UNCHANGED <<pq_in, pq_out, k8s, req, reqs, rag>>

ToStr(flag) == IF flag THEN "True" ELSE "False"

\* How GET /collections/{COLLECTION_NAME} may end: Qdrant answers 200 only for
\* a collection it has (404 otherwise); any request may fail.
CheckEnds(collection) == IF collection THEN ProbeEnds ELSE {"other", "raised"}

\* Mutant of collection_found: a check that raised counts as found.
collection_found_unless_404(end) == end # "other"

\* collection_exists = r.status_code == 200; except: collection_exists = False
collection_found(end) == end = "200"

\* The check of the collection and the branch on collection_exists; the else
\* branch ends startup.
CheckCollection ==
    /\ boot.pc = "check_collection"
    /\ \E end \in CheckEnds(boot.collection) :
          boot' = IF collection_found(end)
                  THEN Exited([boot EXCEPT !.collection_exists = "True",
                                           !.existed = ToStr(boot.collection)],
                              "complete")
                  ELSE [boot EXCEPT !.collection_exists = "False",
                                    !.existed = ToStr(boot.collection),
                                    !.pc = "create_collection"]
    /\ UNCHANGED <<pq_in, pq_out, k8s, req, reqs, rag>>

\* How PUT /collections/{COLLECTION_NAME} may end: Qdrant creates a collection
\* it lacks and rejects the creation of one it has; any request may fail.
CreateEnds(collection) == IF collection THEN {"other", "raised"} ELSE ProbeEnds

\* Mutant of Created: raise_for_status is missing, ingestion follows any answer.
Created_unchecked(b, end) ==
    IF end = "raised" THEN Exited(b, "failed")
    ELSE [b EXCEPT !.created = (end = "200"), !.pc = "ingest", !.idx = 1,
                   !.success_count = 0]

\* r = await client.put(...); r.raise_for_status(): an exception reaches the
\* outer `except Exception`, which ends startup.
Created(b, end) ==
    IF end = "200"
    THEN [b EXCEPT !.created = TRUE, !.pc = "ingest", !.idx = 1, !.success_count = 0]
    ELSE Exited(b, "failed")

\* The creation request.  When it raised, Qdrant may have made the collection
\* all the same.
CreateCollection ==
    /\ boot.pc = "create_collection"
    /\ \E end \in CreateEnds(boot.collection), made \in BOOLEAN :
          /\ end = "200" => made
          /\ end = "other" => ~made
          /\ boot' = Created([boot EXCEPT !.creates = boot.creates + 1,
                                          !.collection = boot.collection \/ made],
                             end)
    /\ UNCHANGED <<pq_in, pq_out, k8s, req, reqs, rag>>

\* How the body of the ingestion loop may go for one document.
IngestEnds == {"ok", "embed_failed", "insert_failed"}

\* Mutant of Ingested: a failure ends the loop.
Ingested_abort(b, end) ==
    IF end = "ok"
    THEN [b EXCEPT !.success_count = b.success_count + 1, !.idx = b.idx + 1]
    ELSE [b EXCEPT !.idx = Len(SAMPLE_DOCUMENTS) + 1]

\* Mutant of Ingested: every attempt is counted.
Ingested_counted(b, end) ==
    [b EXCEPT !.success_count = b.success_count + 1, !.idx = b.idx + 1]

\* The try block of the loop body: success_count += 1 is reached only when
\* embed_text and the insert with raise_for_status both went through; `except
\* Exception` prints and the loop goes on.
Ingested(b, end) ==
    IF end = "ok"
    THEN [b EXCEPT !.success_count = b.success_count + 1, !.idx = b.idx + 1]
    ELSE [b EXCEPT !.idx = b.idx + 1]

\* One pass of `for idx, doc_data in enumerate(SAMPLE_DOCUMENTS)`.  attempts
\* are the documents handed to embed_text, inserted the documents Qdrant
\* accepted.
IngestDocument ==
    /\ boot.pc = "ingest"
    /\ boot.idx <= Len(SAMPLE_DOCUMENTS)
    /\ \E end \in IngestEnds :
          boot' = Ingested(
                     [boot EXCEPT
                        !.attempts = Append(boot.attempts, SAMPLE_DOCUMENTS[boot.idx]),
                        !.inserted = IF end = "ok"
                                     THEN Append(boot.inserted,
                                                 SAMPLE_DOCUMENTS[boot.idx])
                                     ELSE boot.inserted,
                        !.ingest_runs = IF boot.attempts = <<>>
                                        THEN boot.ingest_runs + 1
                                        ELSE boot.ingest_runs],
                     end)
    /\ UNCHANGED <<pq_in, pq_out, k8s, req, reqs, rag>>

\* The loop is over: the count is printed and startup completes.
FinishIngestion ==
    /\ boot.pc = "ingest"
    /\ boot.idx > Len(SAMPLE_DOCUMENTS)
    /\ boot' = Exited([boot EXCEPT !.reported = boot.success_count], "complete")
    /\ UNCHANGED <<pq_in, pq_out, k8s, req, reqs, rag>>

\* The server is restarted: startup_event runs again, Qdrant keeps its state.
Restart ==
    /\ boot.pc = "done"
    /\ boot.run < MaxRuns
    /\ boot' = Started(boot.program, boot.run + 1, boot.collection, boot.ingest_runs)
    /\ UNCHANGED <<pq_in, pq_out, k8s, req, reqs, rag>>

InitStartup ==
    /\ pq_in = <<>>
    /\ pq_out = NoCall
    /\ k8s = Unloaded("http")
    /\ req = Idle
    /\ reqs = "none"
    /\ \E program \in Programs, collection \in BOOLEAN :
          boot = Started(program, 1, collection, 0)
    /\ rag = "none"

\* A step of startup_event.
StartupStep ==
    \/ QdrantProbe
    \/ QdrantSleep
    \/ OllamaProbe
    \/ OllamaSleep
    \/ CheckCollection
    \/ CreateCollection
    \/ IngestDocument
    \/ FinishIngestion

NextStartup ==
    \/ StartupStep
    \/ Restart

\* startup_event is a coroutine the event loop runs to its end: each request
\* it awaits returns or raises within the client's timeout.
SpecStartup == InitStartup /\ [][NextStartup]_vars /\ WF_vars(StartupStep)

(***************************************************************************)
(* The /query operation of main.py and unified_server.py: embed_text,      *)
(* qdrant_search, build_rag_prompt, llm_generate, one request at a time.   *)
(***************************************************************************)
Prompts == {"what is rag", "what is a pod"}

\* Largest top_k a caller asks for.
MaxTopK == 2

\* A dict with the given keys, all mapped to value.
DictOf(keys, value) == [key \in keys |-> value]

\* How an awaited POST ends: it raised (no answer), raise_for_status raised
\* HTTPStatusError, or the body was read as the JSON object data.
PostRaised == [kind |-> "raised", data |-> EmptyDict]

PostRejected == [kind |-> "status", data |-> EmptyDict]

PostAnswered(data) == [kind |-> "json", data |-> data]

\* The bodies Ollama may answer an embeddings request with: the vector under
\* "embedding" or under "embeddings", an empty list, or neither key.
EmbedEnds ==
    {PostRaised, PostRejected}
      \cup {PostAnswered(DictOf(keys, vector)) :
               keys \in SUBSET {"embedding", "embeddings"},
               vector \in {<<>>, <<1, 2, 3>>}}
      \cup {PostAnswered([key \in {"embedding", "embeddings"} |->
                             IF key = "embedding" THEN <<>> ELSE <<1, 2, 3>>])}

\* A match of the search: with a payload that has a text, with a payload that
\* has none, or without payload.
MatchPool ==
    {DictOf({"payload"}, DictOf({"text"}, "doc a")),
     DictOf({"payload"}, DictOf({"text"}, "doc b")),
     DictOf({"payload"}, EmptyDict),
     EmptyDict}

\* The bodies Qdrant may answer a search for at most top_k points with.
SearchEnds(top_k) ==
    {PostRaised, PostRejected, PostAnswered(EmptyDict)}
      \cup {PostAnswered(DictOf({"result"}, matches)) :
               matches \in SeqsUpTo(MatchPool, top_k)}

\* The bodies Ollama may answer a generate request with.
GenerateEnds ==
    {PostRaised, PostRejected, PostAnswered(EmptyDict)}
      \cup {PostAnswered(DictOf({"response"}, text)) :
               text \in {"answer a", "answer b"}}

NoBody == [none |-> TRUE]

NoPrompt == [context |-> <<>>, query |-> ""]

\* No /query request is in flight.  sent: the requests the handler has sent;
\* ends: how each of them ended.
QueryIdle(program) ==
    [program |-> program, pc |-> "idle", prompt |-> "", top_k |-> 0,
     vector |-> <<>>, matches |-> <<>>, rag_prompt |-> NoPrompt, answer |-> "",
     sent |-> <<>>, ends |-> <<>>, failed |-> "",
     response |-> [status |-> 0, detail |-> "", body |-> NoBody]]

\* The request once the POST of a step was sent and ended with end.
Sent(q, step, end) ==
    [q EXCEPT !.sent = Append(q.sent, step), !.ends = Append(q.ends, end)]

\* `except Exception as e: raise HTTPException(status_code=500, detail=str(e))`
\* of query; failed names the step that raised.
QueryFailed(q, step, type) ==
    [q EXCEPT !.pc = "done", !.failed = step,
              !.response = [status |-> 500, detail |-> type, body |-> NoBody]]

\* response_data.get("embedding", response_data.get("embeddings", []))
embedding_of(response_data) ==
    DictGet(response_data, "embedding", DictGet(response_data, "embeddings", <<>>))

\* Mutant of Embedded: an empty embedding is handed on to the search.
Embedded_unchecked(q, end) ==
    IF end.kind = "raised" THEN QueryFailed(q, "embed", "ConnectError")
    ELSE IF end.kind = "status" THEN QueryFailed(q, "embed", "HTTPStatusError")
    ELSE [q EXCEPT !.pc = "search", !.vector = embedding_of(end.data)]

\* embed_text once its POST ended with end, and step 1 of query.
Embedded(q, end) ==
    IF end.kind = "raised" THEN QueryFailed(q, "embed", "ConnectError")
    ELSE IF end.kind = "status" THEN QueryFailed(q, "embed", "HTTPStatusError")
    ELSE IF embedding_of(end.data) = <<>>
    THEN QueryFailed(q, "embed", "HTTPException")
    ELSE [q EXCEPT !.pc = "search", !.vector = embedding_of(end.data)]

\* Mutant of Searched: a search that was rejected counts as one without matches.
Searched_lenient(q, end) ==
    IF end.kind = "raised" THEN QueryFailed(q, "search", "ConnectError")
    ELSE IF end.kind = "status" THEN [q EXCEPT !.pc = "build", !.matches = <<>>]
    ELSE IF "result" \notin DOMAIN end.data
    THEN QueryFailed(q, "search", "KeyError")
    ELSE [q EXCEPT !.pc = "build", !.matches = end.data.result]

\* qdrant_search once its POST ended with end, and step 2 of query: the
\* HTTPStatusError is turned into HTTPException(500, "Qdrant error: ..."),
\* which the except clause of query catches like every other exception.
Searched(q, end) ==
    IF end.kind = "raised" THEN QueryFailed(q, "search", "ConnectError")
    ELSE IF end.kind = "status" THEN QueryFailed(q, "search", "HTTPException")
    ELSE IF "result" \notin DOMAIN end.data
    THEN QueryFailed(q, "search", "KeyError")
    ELSE [q EXCEPT !.pc = "build", !.matches = end.data.result]

\* [m["payload"].get("text", "") for m in matches]
RECURSIVE context_of(_)
context_of(matches) ==
    IF matches = <<>> THEN <<>>
    ELSE <<DictGet(Head(matches).payload, "text", "")>> \o context_of(Tail(matches))

\* build_rag_prompt: the texts of the matches, joined by newlines, and the
\* query; m["payload"] raises KeyError for a match without payload.
build_rag_prompt(q) ==
    IF \E k \in 1..Len(q.matches) : "payload" \notin DOMAIN q.matches[k]
    THEN QueryFailed(q, "build", "KeyError")
    ELSE [q EXCEPT !.pc = "generate",
                   !.rag_prompt = [context |-> context_of(q.matches),
                                   query |-> q.prompt]]

\* The dict query returns.
query_result(q, answer) ==
    [query |-> q.prompt, matches |-> q.matches, response |-> answer]

\* llm_generate once its POST ended with end, step 4 of query and its return.
Generated(q, end) ==
    IF end.kind = "raised" THEN QueryFailed(q, "generate", "ConnectError")
    ELSE IF end.kind = "status" THEN QueryFailed(q, "generate", "HTTPStatusError")
    ELSE IF "response" \notin DOMAIN end.data
    THEN QueryFailed(q, "generate", "KeyError")
    ELSE [q EXCEPT !.pc = "done", !.answer = end.data.response,
                   !.response = [status |-> 200, detail |-> "",
                                 body |-> query_result(q, end.data.response)]]

\* POST /query with a prompt and a top_k.
QueryArrives ==
    /\ rag.pc = "idle"
    /\ \E prompt \in Prompts, top_k \in 1..MaxTopK :
          rag' = [QueryIdle(rag.program) EXCEPT !.pc = "embed", !.prompt = prompt,
                                                !.top_k = top_k]
    /\ UNCHANGED <<pq_in, pq_out, k8s, req, reqs, boot>>

\* vector = await embed_text(data.prompt)
EmbedText ==
    /\ rag.pc = "embed"
    /\ \E end \in EmbedEnds : rag' = Embedded(Sent(rag, "embed", end), end)
    /\ UNCHANGED <<pq_in, pq_out, k8s, req, reqs, boot>>

\* matches = await qdrant_search(vector, data.top_k)
QdrantSearch ==
    /\ rag.pc = "search"
    /\ \E end \in SearchEnds(rag.top_k) : rag' = Searched(Sent(rag, "search", end), end)
    /\ UNCHANGED <<pq_in, pq_out, k8s, req, reqs, boot>>

\* rag_prompt = build_rag_prompt(data.prompt, matches)
BuildRagPrompt ==
    /\ rag.pc = "build"
    /\ rag' = build_rag_prompt(rag)
    /\ UNCHANGED <<pq_in, pq_out, k8s, req, reqs, boot>>

\* answer = await llm_generate(rag_prompt), and the return.
LlmGenerate ==
    /\ rag.pc = "generate"
    /\ \E end \in GenerateEnds : rag' = Generated(Sent(rag, "generate", end), end)
    /\ UNCHANGED <<pq_in, pq_out, k8s, req, reqs, boot>>

\* The answer is handed to the caller.
QueryAnswered ==
    /\ rag.pc = "done"
    /\ rag' = QueryIdle(rag.program)
    /\ UNCHANGED <<pq_in, pq_out, k8s, req, reqs, boot>>

InitQuery ==
    /\ pq_in = <<>>
    /\ pq_out = NoCall
    /\ k8s = Unloaded("http")
    /\ req = Idle
    /\ reqs = "none"
    /\ boot = "none"
    /\ \E program \in Programs : rag = QueryIdle(program)

NextQuery ==
    \/ QueryArrives
    \/ EmbedText
    \/ QdrantSearch
    \/ BuildRagPrompt
    \/ LlmGenerate
    \/ QueryAnswered

SpecQuery == InitQuery /\ [][NextQuery]_vars

(***************************************************************************)
(* Claims about parse_quantity (checked under SpecParser).                 *)
(***************************************************************************)
\* factor(s) of the specification.
Factor(s) ==
    CASE s = <<"K", "i">> -> FInt(1024)
      [] s = <<"M", "i">> -> FInt(1024 * 1024)
      [] s = <<"G", "i">> -> FInt(1024 * 1024 * 1024)
      [] s = <<"T", "i">> -> FMul(FInt(1024 * 1024), FInt(1024 * 1024))
      [] s = <<"K">> -> FDec(1, 3)
      [] s = <<"M">> -> FDec(1, 6)
      [] s = <<"G">> -> FDec(1, 9)
      [] s = <<"T">> -> FDec(1, 12)
      [] s = <<"m">> -> FDec(1, -3)
      [] s = <<"n">> -> FDec(1, -9)
      [] s = <<>> -> FInt(1)

\* Both definitions of parse_quantity returned result r.
BothReturn(r) == pq_out.done /\ pq_out.mcp = r /\ pq_out.http = r

\* C1: for every non-negative magnitude x and every suffix s of the
\* specification, parse_quantity applied to the text of x followed by s returns
\* x * factor(s); the examples of the specification are 5Ki -> 5120, 5K -> 5000,
\* 250m -> 0.25, 1000000000n -> 1 and 4 -> 4.
C1_ParseScalesByFactor ==
    pq_out.done =>
        /\ \A x \in Magnitudes : \A s \in Suffixes : \A t \in MagnitudeTexts(x) :
              pq_in = t \o s => BothReturn(Ok(FMul(MagnitudeValue(x), Factor(s))))
        /\ pq_in = <<"5", "K", "i">> => BothReturn(Ok(FInt(5120)))
        /\ pq_in = <<"5", "K">> => BothReturn(Ok(FInt(5000)))
        /\ pq_in = <<"2", "5", "0", "m">> => BothReturn(Ok(FDec(25, -2)))
        /\ pq_in = <<"1", "0", "0", "0", "0", "0", "0", "0", "0", "0", "n">>
              => BothReturn(Ok(FInt(1)))
        /\ pq_in = <<"4">> => BothReturn(Ok(FInt(4)))

\* C1 witness: the text of the float 1.2 followed by Gi was parsed to 1.2 * 1024^3.
C1_Witness ==
    /\ pq_out.done
    /\ pq_in = <<"1", ".", "2", "G", "i">>
    /\ pq_in = FloatText([k |-> 12, j |-> 1]) \o <<"G", "i">>
    /\ pq_out.mcp = Ok([n |-> 3, d |-> 1, e2 |-> 31, e5 |-> -1])   \* 6/5 * 2^30
    /\ pq_out.http = pq_out.mcp

\* The suffixes parse_quantity recognizes, in the order the specification
\* gives for its rules: m, n, then Ki, Mi, Gi, Ti, K, M, G, T.
RuleOrder ==
    << <<"m">>, <<"n">>, <<"K", "i">>, <<"M", "i">>, <<"G", "i">>, <<"T", "i">>,
       <<"K">>, <<"M">>, <<"G">>, <<"T">> >>

\* The first rule of RuleOrder whose suffix ends s; 0 when none does.
FirstRule(s) ==
    LET hits == {i \in 1..Len(RuleOrder) : EndsWith(s, RuleOrder[i])}
    IN  IF hits = {} THEN 0 ELSE CHOOSE i \in hits : \A j \in hits : i <= j

MatchedSuffix(s) == IF FirstRule(s) = 0 THEN <<>> ELSE RuleOrder[FirstRule(s)]

\* What is left of s once the matched suffix is stripped.
Remainder(s) == SubSeq(s, 1, Len(s) - Len(MatchedSuffix(s)))

IsFloatLiteral(s) == float(s).exc = "none"

\* C2: parse_quantity fails with a parse error, and returns no number, for
\* every non-empty input whose remainder after stripping the matched suffix is
\* not a valid floating-point literal (a suffix alone, an unrecognized unit);
\* and a parse error is the only way it fails: it fails on no other input and
\* with no other error.
C2_ParseErrorIffBadRemainder ==
    pq_out.done =>
        LET bad == ~Falsy(pq_in) /\ ~IsFloatLiteral(Remainder(pq_in))
        IN  /\ bad => BothReturn(Raise("ValueError"))
            /\ ~bad => pq_out.mcp.exc = "none" /\ pq_out.http.exc = "none"
            /\ pq_in \in {<<"m">>, <<"n">>, <<"K", "i">>, <<"G">>, <<"5", "P", "i">>,
                          <<"5", "k">>, <<"5", "E">>}
                  => BothReturn(Raise("ValueError"))

\* C2 witness: the suffix-only input Ki was parsed and raised ValueError.
C2_Witness ==
    /\ pq_in = <<"K", "i">>
    /\ Remainder(pq_in) = <<>>
    /\ BothReturn(Raise("ValueError"))

\* C3: parse_quantity decides by the first applicable rule: empty or null input
\* returns 0; otherwise the first suffix of m, n, Ki, Mi, Gi, Ti, K, M, G, T that
\* ends the input is stripped whole and its factor applied to the parsed
\* remainder; otherwise the whole string is parsed as a bare number.  5Ki is
\* 5 * 1024, never 5K plus a stray character.
C3_FirstApplicableRule ==
    pq_out.done =>
        /\ BothReturn(
              IF Falsy(pq_in) THEN Ok(FZero)
              ELSE IF FirstRule(pq_in) = 0 THEN float(pq_in)
              ELSE PyMul(float(Remainder(pq_in)), Factor(MatchedSuffix(pq_in))))
        /\ pq_in = <<"5", "K", "i">> => BothReturn(Ok(FInt(5 * 1024)))

\* C3 witness: an input ending in Ki whose remainder is a float literal was
\* parsed by the Ki rule (rule 3), and the null input returned 0.
C3_Witness ==
    /\ pq_out.done
    /\ pq_in = <<".", "5", "K", "i">>
    /\ FirstRule(pq_in) = 3
    /\ pq_out.mcp = Ok(FInt(512))
    /\ pq_out.http = Ok(FInt(512))

(***************************************************************************)
(* Claims about the cluster CPU and memory aggregations (checked under     *)
(* Spec).  The expected figures are computed from the metrics listing and  *)
(* the inventory the request was answered with, by the parsing rules of    *)
(* the specification, not from the accumulators of the handler.            *)
(***************************************************************************)
\* The value the specification gives quantity string q (q parses).
QuantityValue(q) ==
    IF Falsy(q) THEN FZero
    ELSE PyMul(float(Remainder(q)), Factor(MatchedSuffix(q))).val

\* "cpu" or "memory": the resource the request aggregates.
Resource == IF req.name = "get_cluster_cpu" THEN "cpu" ELSE "memory"

\* Usage and capacity of sample i of the metrics listing, in cores or bytes.
SampleUsage(i) == QuantityValue(req.nodes_metrics[i].usage[Resource])

SampleCapacity(i) ==
    LET nm == req.nodes_metrics[i].name
    IN  IF nm \in DOMAIN req.node_capacities
        THEN QuantityValue(req.node_capacities[nm][Resource])
        ELSE FZero

RECURSIVE SumUsage(_)
SumUsage(i) == IF i = 0 THEN FZero ELSE FAdd(SumUsage(i - 1), SampleUsage(i))

RECURSIVE SumCapacity(_)
SumCapacity(i) ==
    IF i = 0 THEN FZero ELSE FAdd(SumCapacity(i - 1), SampleCapacity(i))

NumSamples == Len(req.nodes_metrics)

TotalUsage == SumUsage(NumSamples)

TotalCapacity == SumCapacity(NumSamples)

\* usage / capacity * 100 (capacity # 0)
Percent(usage, capacity) == FMul(FDiv(usage, capacity), FInt(100))

\* The request was answered with an aggregate.
IsAggregate ==
    /\ req.pc = "done"
    /\ req.name \in ToolNames
    /\ req.response.kind \in {"json", "text"}
    /\ "nodes" \in DOMAIN req.response.result

\* The cluster-wide record and the per-subject list of the aggregate.
Cluster ==
    IF Resource = "cpu" THEN req.response.result.cluster_cpu
    ELSE req.response.result.cluster_memory

Subjects == req.response.result.nodes

\* The figure as the aggregate reports it: cores to 3 decimals, bytes as
\* gibibytes to 2 decimals.
Reported(x) ==
    IF Resource = "cpu" THEN round(x, 3)
    ELSE round(FDiv(x, FMul(FInt(1024 * 1024), FInt(1024))), 2)

ClusterUsage ==
    IF Resource = "cpu" THEN Cluster.total_usage_cores ELSE Cluster.total_usage_gi

ClusterCapacity ==
    IF Resource = "cpu" THEN Cluster.total_capacity_cores
    ELSE Cluster.total_capacity_gi

SubjectUsage(i) ==
    IF Resource = "cpu" THEN Subjects[i].usage_cores ELSE Subjects[i].usage_gi

SubjectCapacity(i) ==
    IF Resource = "cpu" THEN Subjects[i].capacity_cores ELSE Subjects[i].capacity_gi

\* Both cluster API calls of the request returned.
SamplesObtained ==
    /\ req.name \in ToolNames
    /\ req.api_calls = << [api |-> "list_cluster_custom_object", status |-> 200],
                          [api |-> "list_node", status |-> 200] >>

\* The quantity string of the capacity of sample i ('0' when the inventory
\* lacks the node).
SampleCapacityStr(i) ==
    LET nm == req.nodes_metrics[i].name
    IN  IF nm \in DOMAIN req.node_capacities
        THEN req.node_capacities[nm][Resource]
        ELSE <<"0">>

Parses(q) == Falsy(q) \/ IsFloatLiteral(Remainder(q))

\* Every quantity string of the samples parses.
AllParse ==
    \A i \in 1..NumSamples :
        /\ Parses(req.nodes_metrics[i].usage[Resource])
        /\ Parses(SampleCapacityStr(i))

\* C4: the reported total usage is the sum of the parsed usage of every
\* sample, the reported total capacity the sum of the parsed capacity of every
\* sample (each as the output shows it: cores to 3 decimals, gibibytes to 2),
\* and the cluster-wide utilization is total_usage / total_capacity * 100
\* computed from these two totals.
C4_TotalsAreSums ==
    IsAggregate =>
        /\ ClusterUsage = Reported(TotalUsage)
        /\ ClusterCapacity = Reported(TotalCapacity)
        /\ FGreater(TotalCapacity, FZero) =>
              Cluster.utilization_percent
                  = round(Percent(TotalUsage, TotalCapacity), 2)

\* C4 witness: 8 of 10 cores and 0.25 of 2 cores: the cluster utilization is
\* 8.25 / 12 = 68.75 %, not the mean 46.25 % of the subjects' 80 % and 12.5 %.
C4_Witness ==
    /\ IsAggregate
    /\ Resource = "cpu"
    /\ NumSamples = 2
    /\ ClusterUsage = FDec(825, -2)
    /\ ClusterCapacity = FInt(12)
    /\ Subjects[1].utilization_percent = FInt(80)
    /\ Subjects[2].utilization_percent = FDec(125, -1)
    /\ Cluster.utilization_percent = FDec(6875, -2)

\* C5: no aggregation raises a division error: a sample whose capacity is 0
\* gets per-subject utilization 0 and a listing whose total capacity is 0 gets
\* cluster-wide utilization 0, whatever the usage.
C5_NoDivisionError ==
    /\ req.response.type # "ZeroDivisionError"
    /\ req.response.error # "ZeroDivisionError"
    /\ IsAggregate =>
          /\ \A i \in 1..NumSamples :
                SampleCapacity(i) = FZero => Subjects[i].utilization_percent = FZero
          /\ TotalCapacity = FZero => Cluster.utilization_percent = FZero
    /\ (/\ req.pc = "done"
        /\ SamplesObtained
        /\ AllParse)
          => IsAggregate

\* C5 witness: a sample with usage 12 and capacity 0 in a listing whose total
\* capacity is 0 was aggregated.
C5_Witness ==
    /\ IsAggregate
    /\ NumSamples >= 1
    /\ SampleUsage(1) = FInt(12)
    /\ SampleCapacity(1) = FZero
    /\ TotalCapacity = FZero
    /\ Subjects[1].utilization_percent = FZero
    /\ Cluster.utilization_percent = FZero

\* C6: utilization is never clamped: a sample with capacity > 0 and usage >
\* capacity reports usage / capacity * 100 (rounded to 2 decimals), which is
\* not below 100 and is above 100 once the excess shows in 2 decimals; usage
\* 12 of capacity 10 reports 120.  The same holds of the cluster-wide
\* utilization when total usage exceeds total capacity.
C6_NotClamped ==
    IsAggregate =>
        /\ \A i \in 1..NumSamples :
              (FGreater(SampleCapacity(i), FZero)
                  /\ FGreater(SampleUsage(i), SampleCapacity(i))) =>
                 LET exact == Percent(SampleUsage(i), SampleCapacity(i))
                     shown == Subjects[i].utilization_percent
                 IN  /\ shown = round(exact, 2)
                     /\ FAtLeast(shown, FInt(100))
                     /\ FGreater(exact, FDec(100005, -3))
                           => FGreater(shown, FInt(100))
                     /\ (SampleUsage(i) = FInt(12) /\ SampleCapacity(i) = FInt(10))
                           => shown = FInt(120)
        /\ (FGreater(TotalCapacity, FZero) /\ FGreater(TotalUsage, TotalCapacity)) =>
              LET exact == Percent(TotalUsage, TotalCapacity)
                  shown == Cluster.utilization_percent
              IN  /\ shown = round(exact, 2)
                  /\ FAtLeast(shown, FInt(100))
                  /\ FGreater(exact, FDec(100005, -3)) => FGreater(shown, FInt(100))

\* C6 witness: one sample with usage 12 and capacity 10: 120 % for the subject
\* and for the cluster.
C6_Witness ==
    /\ IsAggregate
    /\ NumSamples = 1
    /\ SampleUsage(1) = FInt(12)
    /\ SampleCapacity(1) = FInt(10)
    /\ Subjects[1].utilization_percent = FInt(120)
    /\ Cluster.utilization_percent = FInt(120)

\* Every sample has 0 <= usage <= capacity.
WellFormed ==
    \A i \in 1..NumSamples :
        /\ FAtLeast(SampleUsage(i), FZero)
        /\ FAtLeast(SampleCapacity(i), SampleUsage(i))

InRange(pct) == FAtLeast(pct, FZero) /\ FAtLeast(FInt(100), pct)

\* C7: for well-formed inputs (0 <= usage <= capacity for every sample) every
\* per-subject utilization and the cluster-wide utilization lie in [0, 100];
\* a single sample with usage 8 and capacity 10 yields 80 for both.
C7_WellFormedInRange ==
    (IsAggregate /\ WellFormed) =>
        /\ \A i \in 1..NumSamples : InRange(Subjects[i].utilization_percent)
        /\ InRange(Cluster.utilization_percent)
        /\ (NumSamples = 1 /\ SampleUsage(1) = FInt(8)
               /\ SampleCapacity(1) = FInt(10)) =>
              /\ Subjects[1].utilization_percent = FInt(80)
              /\ Cluster.utilization_percent = FInt(80)

\* C7 witness: the single sample with usage 8 and capacity 10 was aggregated.
C7_Witness ==
    /\ IsAggregate
    /\ WellFormed
    /\ NumSamples = 1
    /\ SampleUsage(1) = FInt(8)
    /\ SampleCapacity(1) = FInt(10)
    /\ Cluster.utilization_percent = FInt(80)

\* C8: the per-subject list has exactly one record per sample of the metrics
\* listing, in the order of the listing: nothing is sorted, dropped or
\* deduplicated (while the loop runs, node_details holds the records of the
\* samples passed so far, in order).
C8_InputOrderKept ==
    /\ IsAggregate =>
          /\ Len(Subjects) = NumSamples
          /\ \A i \in 1..NumSamples :
                /\ Subjects[i].node = req.nodes_metrics[i].name
                /\ SubjectUsage(i) = Reported(SampleUsage(i))
                /\ SubjectCapacity(i) = Reported(SampleCapacity(i))
    /\ req.pc = "loop" =>
          /\ Len(req.node_details) = req.i - 1
          /\ \A i \in 1..Len(req.node_details) :
                req.node_details[i].node = req.nodes_metrics[i].name

\* C8 witness: the listing b, a (and so its permutation a, b as well) was
\* aggregated into subjects b, a; the sample of a has no inventory entry.
C8_Witness ==
    /\ IsAggregate
    /\ NumSamples = 2
    /\ req.nodes_metrics[1].name = "b"
    /\ req.nodes_metrics[2].name = "a"
    /\ "a" \notin DOMAIN req.node_capacities
    /\ Subjects[1].node = "b"
    /\ Subjects[2].node = "a"

\* The aggregate of no samples.
EmptyAggregate ==
    IF Resource = "cpu"
    THEN [cluster_cpu |-> [total_usage_cores |-> FZero,
                           total_capacity_cores |-> FZero,
                           utilization_percent |-> FZero],
          nodes |-> <<>>]
    ELSE [cluster_memory |-> [total_usage_gi |-> FZero,
                              total_capacity_gi |-> FZero,
                              utilization_percent |-> FZero],
          nodes |-> <<>>]

\* C9: aggregating an empty sample list is not an error: it yields total usage
\* 0, total capacity 0, utilization 0 and an empty per-subject list.
C9_EmptyListing ==
    (req.pc = "done" /\ SamplesObtained /\ NumSamples = 0) =>
        /\ req.response.kind \in {"json", "text"}
        /\ req.response.error = ""
        /\ req.response.result = EmptyAggregate

\* C9 witness: an empty metrics listing was aggregated although the inventory
\* has nodes.
C9_Witness ==
    /\ req.pc = "done"
    /\ SamplesObtained
    /\ NumSamples = 0
    /\ DOMAIN req.node_capacities = NodeNames
    /\ IsAggregate
    /\ Subjects = <<>>

CpuFields == {"total_usage_cores", "total_capacity_cores", "utilization_percent"}

MemoryFields == {"total_usage_gi", "total_capacity_gi", "utilization_percent"}

\* The structure of an aggregate: total usage, total capacity and utilization
\* percent, and per-subject records with the same three fields and the
\* identifier of the subject.
AggregateStructure ==
    IF Resource = "cpu"
    THEN /\ DOMAIN req.response.result = {"cluster_cpu", "nodes"}
         /\ DOMAIN Cluster = CpuFields
         /\ \A i \in 1..Len(Subjects) :
               DOMAIN Subjects[i]
                   = {"node", "usage_cores", "capacity_cores", "utilization_percent"}
    ELSE /\ DOMAIN req.response.result = {"cluster_memory", "nodes"}
         /\ DOMAIN Cluster = MemoryFields
         /\ \A i \in 1..Len(Subjects) :
               DOMAIN Subjects[i]
                   = {"node", "usage_gi", "capacity_gi", "utilization_percent"}

\* bytes / 1024^3, to 2 decimals
Gibibytes(bytes) == round(FDiv(bytes, FInt(1073741824)), 2)

\* The gibibyte figures of a memory aggregate are the conversions of the byte
\* totals and of each sample's bytes.
GibibyteFigures ==
    /\ Cluster.total_usage_gi = Gibibytes(TotalUsage)
    /\ Cluster.total_capacity_gi = Gibibytes(TotalCapacity)
    /\ \A i \in 1..NumSamples :
          /\ Subjects[i].usage_gi = Gibibytes(SampleUsage(i))
          /\ Subjects[i].capacity_gi = Gibibytes(SampleCapacity(i))

\* C10 as claimed: a memory aggregate reports the raw byte totals of usage and
\* of capacity alongside their gibibyte conversions, in the structure of total
\* usage, total capacity, utilization percent and per-subject records.
C10_RawByteTotalsReported ==
    (IsAggregate /\ Resource = "memory") =>
        /\ \E f \in DOMAIN Cluster : Cluster[f] = TotalUsage
        /\ \E f \in DOMAIN Cluster : Cluster[f] = TotalCapacity
        /\ GibibyteFigures
        /\ AggregateStructure

\* C10 as amended: a memory aggregate reports usage and capacity only as their
\* gibibyte conversions (bytes / 1024^3, to 2 decimals): the cluster record has
\* exactly the fields total_usage_gi, total_capacity_gi and
\* utilization_percent, and no field for the raw byte totals; every aggregate
\* carries total usage, total capacity and utilization percent plus per-subject
\* records with the same three fields and the identifier of the subject.
C10_GibibytesOnly ==
    IsAggregate =>
        /\ AggregateStructure
        /\ Resource = "memory" => GibibyteFigures

\* C10 witness: a memory aggregate of one sample using 2 GiB (2 * 1024^3
\* bytes) of 4 GiB reports 2 and 4, and no field holds the byte total.
C10_Witness ==
    /\ IsAggregate
    /\ Resource = "memory"
    /\ NumSamples = 1
    /\ TotalUsage = [n |-> 1, d |-> 1, e2 |-> 31, e5 |-> 0]
    /\ Cluster.total_usage_gi = FInt(2)
    /\ Cluster.total_capacity_gi = FInt(4)
    /\ \A f \in DOMAIN Cluster : Cluster[f] # TotalUsage

\* x has at most k decimals.
HasDecimals(x, k) == round(x, k) = x

\* The sum of the per-subject usage figures as the aggregate shows them.
RECURSIVE SumShownUsage(_)
SumShownUsage(i) ==
    IF i = 0 THEN FZero ELSE FAdd(SumShownUsage(i - 1), SubjectUsage(i))

\* C11: rounding is applied to output values only, cores to 3 decimals,
\* gibibytes and every utilization percentage to 2: while the loop runs the
\* totals are the unrounded sums of the parsed samples, every percentage is
\* computed from unrounded values, the reported cluster total is the rounding
\* of the sum of the unrounded samples, and 2 * 1024^3 bytes report 2 GiB.
C11_RoundingOnOutputOnly ==
    /\ req.pc = "loop" =>
          /\ req.total_usage = SumUsage(req.i - 1)
          /\ req.total_capacity = SumCapacity(req.i - 1)
    /\ IsAggregate =>
          /\ ClusterUsage = Reported(TotalUsage)
          /\ ClusterCapacity = Reported(TotalCapacity)
          /\ HasDecimals(ClusterUsage, IF Resource = "cpu" THEN 3 ELSE 2)
          /\ HasDecimals(ClusterCapacity, IF Resource = "cpu" THEN 3 ELSE 2)
          /\ HasDecimals(Cluster.utilization_percent, 2)
          /\ FGreater(TotalCapacity, FZero) =>
                Cluster.utilization_percent
                    = round(Percent(TotalUsage, TotalCapacity), 2)
          /\ \A i \in 1..NumSamples :
                /\ HasDecimals(SubjectUsage(i), IF Resource = "cpu" THEN 3 ELSE 2)
                /\ HasDecimals(SubjectCapacity(i),
                               IF Resource = "cpu" THEN 3 ELSE 2)
                /\ HasDecimals(Subjects[i].utilization_percent, 2)
                /\ FGreater(SampleCapacity(i), FZero) =>
                      Subjects[i].utilization_percent
                          = round(Percent(SampleUsage(i), SampleCapacity(i)), 2)
                /\ (Resource = "memory"
                      /\ SampleUsage(i) = FMul(FInt(2), FInt(1073741824)))
                      => Subjects[i].usage_gi = FInt(2)

\* C11 witness: two samples of 0.0004 cores on nodes of 2 cores: each subject
\* shows 0 cores and 0.02 %, the cluster shows 0.001 cores, which is not the
\* sum 0 of the figures shown for the subjects.
C11_Witness ==
    /\ IsAggregate
    /\ Resource = "cpu"
    /\ NumSamples = 2
    /\ SampleUsage(1) = FDec(4, -4)
    /\ SampleUsage(2) = FDec(4, -4)
    /\ SampleCapacity(1) = FInt(2)
    /\ Subjects[1].usage_cores = FZero
    /\ Subjects[2].usage_cores = FZero
    /\ Subjects[1].utilization_percent = FDec(2, -2)
    /\ ClusterUsage = FDec(1, -3)
    /\ ClusterUsage # SumShownUsage(NumSamples)

(***************************************************************************)
(* The two front ends compared: what handler name of a server makes of a   *)
(* metrics listing and an inventory, by its own loop body and result.      *)
(***************************************************************************)
RECURSIVE LoopFrom(_, _, _, _, _)
AfterStep(server, name, items, node_capacities, r, step) ==
    IF step.exc # "none" THEN [exc |-> step.exc]
    ELSE LoopFrom(server, name, items, node_capacities, Accumulate(r, step))

\* The handler from the pass on item r.i on: the exception that leaves it, or
\* the result it returns.
LoopFrom(server, name, items, node_capacities, r) ==
    IF r.i > Len(items)
    THEN handler_result(server, name, r.total_usage, r.total_capacity,
                        r.node_details)
    ELSE AfterStep(server, name, items, node_capacities, r,
                   item_pass(server, name, items[r.i], node_capacities))

Outcome(server, name, items, node_capacities) ==
    LoopFrom(server, name, items, node_capacities, [Idle EXCEPT !.i = 1])

OtherServer == IF k8s.server = "http" THEN "mcp" ELSE "http"

\* What the other front end makes of the input this request was answered with.
OtherOutcome ==
    Outcome(OtherServer, req.name, req.nodes_metrics, req.node_capacities)

\* C12: the two front ends compute the same thing: on the metrics listing and
\* inventory a request was answered with, the other front end produces the
\* same aggregate (same fields, values and subject order), or fails with the
\* same error when this one produced none; and the two parse_quantity
\* definitions agree on every input, including on which inputs they fail.
C12_FrontEndsAgree ==
    /\ ~k8s.loaded =>
          \A q \in QuantityInputs : unified_parse_quantity(q) = parse_quantity(q)
    /\ (req.pc = "done" /\ SamplesObtained) =>
          IF IsAggregate
          THEN OtherOutcome = [exc |-> "none", result |-> req.response.result]
          ELSE /\ OtherOutcome = [exc |-> req.response.type]
               /\ req.response.type = "ValueError"

\* C12 witness: the HTTP server answered a memory request on the listing b, a
\* with the aggregate the tool-call server builds from the same input.
C12_Witness ==
    /\ k8s.server = "http"
    /\ IsAggregate
    /\ Resource = "memory"
    /\ NumSamples = 2
    /\ Subjects[1].node = "b"
    /\ Subjects[2].node = "a"
    /\ Subjects[1].usage_gi = FInt(8)
    /\ Outcome("mcp", "get_cluster_memory", req.nodes_metrics,
               req.node_capacities).result = req.response.result
    /\ unified_parse_quantity(<<"8", "G", "i">>) = parse_quantity(<<"8", "G", "i">>)

(***************************************************************************)
(* Claims about requests in flight at once (checked under SpecConcurrent). *)
(***************************************************************************)
\* Both cluster API calls of request r returned.
ObtainedBy(r) ==
    r.api_calls = << [api |-> "list_cluster_custom_object", status |-> 200],
                     [api |-> "list_node", status |-> 200] >>

\* What request r produces when it runs alone on its own input.
Alone(r) == Outcome(k8s.server, r.name, r.nodes_metrics, r.node_capacities)

\* Request r was answered as it is when run alone.
AnsweredAsAlone(r) ==
    IF Alone(r).exc = "none"
    THEN /\ r.response.kind \in {"json", "text"}
         /\ r.response.error = ""
         /\ r.response.result = Alone(r).result
    ELSE /\ r.response.type = Alone(r).exc
         /\ r.response.result = NoResult

\* C13: requests in flight at once are independent: under every interleaving
\* of the steps of the cluster CPU and memory requests, the answer of each
\* request is the one it produces when run alone on its own input, and while
\* its loop runs its totals and per-subject list come from its own samples.
C13_ConcurrentRequestsIndependent ==
    \A c \in Requests :
        /\ (reqs[c].pc = "done" /\ ObtainedBy(reqs[c])) => AnsweredAsAlone(reqs[c])
        /\ reqs[c].pc = "loop" =>
              /\ Len(reqs[c].node_details) = reqs[c].i - 1
              /\ \A j \in 1..Len(reqs[c].node_details) :
                    reqs[c].node_details[j].node = reqs[c].nodes_metrics[j].name

\* C13 witness: request 1 is in its loop, one of two samples accumulated,
\* while request 2, which has another listing, was answered with its own
\* aggregate.
C13_Witness ==
    /\ reqs[1].pc = "loop"
    /\ reqs[1].i = 2
    /\ Len(reqs[1].nodes_metrics) = 2
    /\ reqs[1].total_usage = FDec(4, -4)
    /\ reqs[2].pc = "done"
    /\ ObtainedBy(reqs[2])
    /\ reqs[2].name = "get_cluster_cpu"
    /\ Len(reqs[2].nodes_metrics) = 1
    /\ "nodes" \in DOMAIN reqs[2].response.result
    /\ reqs[2].response.result.cluster_cpu.total_usage_cores = FInt(8)
    /\ AnsweredAsAlone(reqs[2])

(***************************************************************************)
(* Claims about failures of the cluster API (checked under Spec).          *)
(***************************************************************************)
\* The metrics listing of a cluster CPU or memory request failed with this
\* status (0: the call got no answer).
MetricsListingFailed(status) ==
    /\ req.pc = "done"
    /\ req.name \in ToolNames
    /\ req.api_calls # <<>>
    /\ req.api_calls[1] = [api |-> "list_cluster_custom_object", status |-> status]

\* The loop of the handler never ran: no quantity was parsed, nothing was
\* accumulated, and the answer carries no aggregate.
NothingAggregated ==
    /\ Len(req.api_calls) = 1
    /\ req.i = 0
    /\ req.node_details = <<>>
    /\ req.total_usage = FZero
    /\ req.total_capacity = FZero
    /\ req.response.result = NoResult
    /\ ~IsAggregate

MetricsServerNotAvailable ==
    { "Metrics server not available",
      "Metrics server not available. Install metrics-server in your cluster." }

\* C14: when the metrics listing call fails, no quantity is parsed and no
\* aggregate is returned.  With status 404 the HTTP server answers 404
\* 'Metrics server not available' and the tool-call server returns a 'Metrics
\* server not available' error object; with any other failure the HTTP server
\* answers 500 and the tool-call server returns an error object.
C14_ListingFailureBeforeAggregation ==
    /\ \A status \in ApiErrorStatuses \cup {0} :
          MetricsListingFailed(status) =>
             /\ NothingAggregated
             /\ IF k8s.server = "http"
                THEN IF status = 404
                     THEN req.response
                            = Response("http_exception", 404,
                                       "Metrics server not available", "", NoResult)
                     ELSE req.response.status = 500
                ELSE /\ req.response.kind = "text"
                     /\ req.response.error # ""
                     /\ status = 404 <=> req.response.error \in MetricsServerNotAvailable
    /\ req.pc \in {"loop", "list_node"} =>
          req.api_calls[1] = [api |-> "list_cluster_custom_object", status |-> 200]

\* C14 witness: the metrics listing of a get_cluster_cpu call of the tool-call
\* server failed with 404 and the call answered with the error object.
C14_Witness ==
    /\ k8s.server = "mcp"
    /\ req.name = "get_cluster_cpu"
    /\ MetricsListingFailed(404)
    /\ NothingAggregated
    /\ req.response.error
          = "Metrics server not available. Install metrics-server in your cluster."

(***************************************************************************)
(* Claims about the other operations (checked under Spec).                 *)
(***************************************************************************)
\* The request was a get_pod_metrics call that returned a result.
PodMetricsReturned ==
    /\ req.pc = "done"
    /\ req.name = "get_pod_metrics"
    /\ "pods" \in DOMAIN req.response.result

\* C15: get_pod_metrics called with the pod_name of a pod the metrics API
\* knows returns the metrics of that pod only (count 1, one record whose name
\* is pod_name), for every value of the namespace argument including the
\* default 'all'.
C15_PodNameSelectsOnePod ==
    (/\ PodMetricsReturned
     /\ Truthy(pod_name_of(req.arguments))
     /\ \E k \in 1..Len(req.items) : req.items[k].name = pod_name_of(req.arguments))
    =>
        /\ req.response.result.count = 1
        /\ Len(req.response.result.pods) = 1
        /\ req.response.result.pods[1].name = pod_name_of(req.arguments)

\* Both configuration attempts of the module load failed.
InitFailed == k8s.loaded /\ k8s.config = "none"

\* C16: when the client initialization failed, every /k8s/* endpoint answers
\* HTTP 503 'K8s client not available' and call_tool answers the error
\* 'Kubernetes client not initialized' for every tool name, known or not; no
\* cluster API call is made, no handler gets past its first statement, and
\* /health still answers status ok with k8s_enabled false.
C16_ClientMissingRefusesAll ==
    InitFailed =>
        /\ req.pc \in {"idle", "done"}
        /\ req.api_calls = <<>>
        /\ req.pc = "done" =>
              req.response =
                 IF k8s.server = "mcp"
                 THEN Response("text", 0,
                               "Kubernetes client not initialized. Check kubeconfig.",
                               "", NoResult)
                 ELSE IF req.name = "health"
                 THEN Response("json", 200, "", "",
                               [status |-> "ok", k8s_enabled |-> FALSE])
                 ELSE Response("http_exception", 503, "K8s client not available",
                               "", NoResult)

C16_Witness ==
    /\ InitFailed
    /\ k8s.server = "http"
    /\ req.pc = "done"
    /\ req.name = "get_cluster_info"
    /\ req.response.status = 503

(***************************************************************************)
(* Claims about startup (checked under SpecStartup).                       *)
(***************************************************************************)
\* startup_event is in one of its two waiting loops.
Polling == boot.pc \in {"qdrant_probe", "qdrant_sleep", "ollama_probe", "ollama_sleep"}

\* startup_event sleeps between two probes.
Sleeping == boot.pc \in {"qdrant_sleep", "ollama_sleep"}

\* The probes sent to the dependency the sleeping loop waits for.
ProbesOfLoop ==
    IF boot.pc = "qdrant_sleep" THEN boot.qdrant_probes ELSE boot.ollama_probes

\* C17: startup polling is a fixed-count loop that always terminates: a run of
\* startup_event sends at most 30 readiness probes to Qdrant and at most 30 to
\* Ollama (none in unified_server.py), sends no further probe to a dependency
\* once it answered 200, sleeps only after a probe that raised and is not the
\* 30th, and reaches its end whatever the dependencies answer.
C17_PollingBoundedAndTerminates ==
    /\ [](/\ boot.qdrant_probes <= 30
          /\ boot.ollama_probes <= 30
          /\ boot.program = "unified" => boot.ollama_probes = 0
          /\ Sleeping => boot.last = "raised" /\ ProbesOfLoop < 30)
    /\ [][boot'.run = boot.run =>
            /\ boot.qdrant_ready => boot'.qdrant_probes = boot.qdrant_probes
            /\ boot.ollama_ready => boot'.ollama_probes = boot.ollama_probes]_vars
    /\ (boot.pc # "done") ~> (boot.pc = "done")

\* C17 witness: both dependencies answered 200 to their 30th probe only, and
\* startup went on to its end.
C17_Witness ==
    /\ boot.pc = "done"
    /\ boot.program = "main"
    /\ boot.qdrant_probes = 30 /\ boot.qdrant_ready
    /\ boot.ollama_probes = 30 /\ boot.ollama_ready
    /\ boot.exit = "complete"

\* None of the 30 probes sent to the dependency was answered with status 200.
QdrantUnanswered == boot.qdrant_probes = 30 /\ ~boot.qdrant_ready

OllamaUnanswered == boot.ollama_probes = 30 /\ ~boot.ollama_ready

\* C18: in main.py, when none of the 30 Qdrant probes was answered with status
\* 200, whether the probes raised or returned another status, the run sends no
\* probe to Ollama, no creation request and no ingestion request; when none of
\* the 30 Ollama probes was answered with status 200, the run sends no creation
\* request and no ingestion request.
C18_NotReadySkipsInitialization ==
    boot.program = "main" =>
        /\ QdrantUnanswered =>
              /\ boot.ollama_probes = 0
              /\ boot.creates = 0
              /\ boot.attempts = <<>>
        /\ OllamaUnanswered =>
              /\ boot.creates = 0
              /\ boot.attempts = <<>>

\* The run sent ingestion requests.
Ingesting == boot.attempts # <<>>

\* C19 as stated: sample documents are ingested only in a run that found the
\* collection absent and created it; a run that starts when the collection
\* exists sends no creation request and no ingestion request; when creation
\* fails no document is ingested; over the restarts the documents are ingested
\* in at most one run.
C19_ExistingCollectionLeftAlone ==
    boot.program = "main" =>
        /\ Ingesting => boot.collection_exists = "False" /\ boot.created
        /\ boot.existed = "True" => boot.creates = 0 /\ ~Ingesting
        /\ boot.exit = "failed" => ~Ingesting
        /\ boot.ingest_runs <= 1

\* C19, amended: sample documents are ingested only in a run whose check did
\* not find the collection and whose creation request Qdrant accepted; a run
\* whose check found the collection sends no creation request and no ingestion
\* request; a run whose check failed while the collection exists does send a
\* creation request, which fails; when creation fails no document is ingested;
\* over the restarts the documents are ingested in at most one run.
C19_IngestionOnlyAfterCreation ==
    boot.program = "main" =>
        /\ Ingesting =>
              /\ boot.collection_exists = "False"
              /\ boot.creates = 1
              /\ boot.created
              /\ boot.existed = "False"
        /\ boot.collection_exists = "True" => boot.creates = 0 /\ ~Ingesting
        /\ (boot.existed = "True" /\ boot.creates > 0) =>
              /\ boot.collection_exists = "False"
              /\ boot.pc = "done" /\ boot.exit = "failed"
        /\ boot.exit = "failed" => ~Ingesting
        /\ boot.ingest_runs <= 1

\* C19 witness: the first run created the collection and ingested; the check
\* of the second run failed although the collection was there, and its
\* creation request was rejected.
C19_Witness ==
    /\ boot.program = "main"
    /\ boot.run = 2
    /\ boot.ingest_runs = 1
    /\ boot.existed = "True"
    /\ boot.collection_exists = "False"
    /\ boot.creates = 1
    /\ boot.exit = "failed"

\* The ingestion loop of the run is over and its count was printed.
IngestionReported == boot.reported >= 0

\* C20: in the startup ingestion of main.py every sample document is attempted
\* exactly once and in list order, a failure of the embedding or of the insert
\* for one document does not stop the attempts for the following ones, and the
\* success count reported at the end is the number of documents whose
\* embedding and insert both succeeded.
C20_EveryDocumentAttemptedOnce ==
    /\ boot.pc = "ingest" =>
          /\ boot.attempts = SubSeq(SAMPLE_DOCUMENTS, 1, boot.idx - 1)
          /\ boot.success_count = Len(boot.inserted)
    /\ (boot.created /\ boot.pc = "done") => IngestionReported
    /\ IngestionReported =>
          /\ boot.attempts = SAMPLE_DOCUMENTS
          /\ boot.reported = Len(boot.inserted)
          /\ boot.exit = "complete"

\* C20 witness: the second and the fourth document failed; the other three
\* were ingested and counted.
C20_Witness ==
    /\ IngestionReported
    /\ boot.attempts = <<"python", "kubernetes", "fastapi", "vector-db", "rag">>
    /\ boot.inserted = <<"python", "fastapi", "rag">>
    /\ boot.reported = 3

(***************************************************************************)
(* Claims about /query (checked under SpecQuery).                          *)
(***************************************************************************)
QuerySteps == <<"embed", "search", "generate">>

QueryDone == rag.pc = "done"

\* The k-th request of the query was sent and did not bring a JSON body.
RequestFailed(k) == Len(rag.ends) >= k /\ rag.ends[k].kind # "json"

\* The embedding Ollama answered with is empty or missing.
EmbeddingEmpty ==
    /\ Len(rag.ends) >= 1
    /\ rag.ends[1].kind = "json"
    /\ IF "embedding" \in DOMAIN rag.ends[1].data
       THEN rag.ends[1].data.embedding = <<>>
       ELSE IF "embeddings" \in DOMAIN rag.ends[1].data
       THEN rag.ends[1].data.embeddings = <<>>
       ELSE TRUE

\* Every request the query sent brought a JSON body with the key it reads.
AllAnswered ==
    /\ Len(rag.ends) = 3
    /\ ~RequestFailed(1) /\ ~EmbeddingEmpty
    /\ ~RequestFailed(2) /\ "result" \in DOMAIN rag.ends[2].data
    /\ \A k \in 1..Len(rag.ends[2].data.result) :
          "payload" \in DOMAIN rag.ends[2].data.result[k]
    /\ ~RequestFailed(3) /\ "response" \in DOMAIN rag.ends[3].data

\* C21: /query sends its requests in the order embed, search, generate, each
\* only after the step before it succeeded: when the embedding fails or is
\* empty no search and no generation request is sent, when the search fails no
\* generation request is sent; every failure of a step is answered with HTTP
\* 500; on success the answer carries the prompt of the request, the matches
\* the search returned and the response generated.
C21_QueryStepsInOrder ==
    /\ \E k \in 0..3 : rag.sent = SubSeq(QuerySteps, 1, k)
    /\ RequestFailed(1) \/ EmbeddingEmpty => rag.sent = <<"embed">>
    /\ RequestFailed(2) => rag.sent = <<"embed", "search">>
    /\ QueryDone =>
          IF AllAnswered
          THEN /\ rag.sent = QuerySteps
               /\ rag.response.status = 200
               /\ rag.response.body = [query |-> rag.prompt,
                                       matches |-> rag.ends[2].data.result,
                                       response |-> rag.ends[3].data.response]
          ELSE /\ rag.response.status = 500
               /\ rag.response.body = NoBody

\* C21 witness: a query answered with two matches and a generated response.
C21_Witness ==
    /\ QueryDone
    /\ rag.response.status = 200
    /\ Len(rag.response.body.matches) = 2
    /\ rag.response.body.query = "what is rag"
    /\ rag.response.body.response = "answer b"
    /\ rag.rag_prompt.context = <<"doc b", "">>

(***************************************************************************)
(* C22: a quantity string that does not parse fails the aggregation.       *)
(***************************************************************************)

\* The samples before the first one with a quantity string that does not
\* parse.
GoodPrefix ==
    CHOOSE k \in 0..NumSamples :
        /\ \A i \in 1..k : /\ Parses(req.nodes_metrics[i].usage[Resource])
                            /\ Parses(SampleCapacityStr(i))
        /\ k < NumSamples =>
              ~ /\ Parses(req.nodes_metrics[k + 1].usage[Resource])
                /\ Parses(SampleCapacityStr(k + 1))

\* C22: an aggregation whose listings hold a quantity string that fails to
\* parse ends without an aggregate: no result with partial totals is answered
\* and the loop stops at the bad sample, which is not counted (as 0 or
\* otherwise); the HTTP server lets the ValueError escape the handler (no
\* HTTPException, so no 404), the tool-call server answers one text with an
\* error object that carries the type ValueError and no aggregate.
C22_ParseFailureFailsRequest ==
    (req.pc = "done" /\ SamplesObtained /\ ~AllParse) =>
        /\ ~IsAggregate
        /\ req.response.result = NoResult
        /\ req.response.type = "ValueError"
        /\ req.i = GoodPrefix + 1
        /\ Len(req.node_details) = GoodPrefix
        /\ IF k8s.server = "http"
           THEN /\ req.response.kind = "unhandled"
                /\ req.response.status # 404
           ELSE /\ req.response.kind = "text"
                /\ req.response.error # ""

\* C22 witness: the second sample of the tool-call server's CPU aggregation
\* is 5u after a first sample of 8 cores was added to the totals; the answer
\* is the error object.
C22_Witness ==
    /\ req.pc = "done"
    /\ SamplesObtained
    /\ k8s.server = "mcp"
    /\ Resource = "cpu"
    /\ NumSamples = 2
    /\ req.nodes_metrics[1].usage.cpu = <<"8">>
    /\ req.nodes_metrics[2].usage.cpu = <<"5", "u">>
    /\ req.total_usage = FInt(8)
    /\ req.response = Response("text", 0, "ValueError", "ValueError", NoResult)

(***************************************************************************)
(* C23: the client handles are initialized once, with a fallback.          *)
(***************************************************************************)

\* The module's names as the initialization block left them.
HandlesInitialized ==
    /\ k8s.tried \in {<<"incluster">>, <<"incluster", "kubeconfig">>}
    /\ k8s.config = "incluster" <=> k8s.tried = <<"incluster">>
    /\ k8s.config = "none" => k8s.v1 = "None" /\ k8s.metrics_api = "None"
    /\ k8s.v1 \in {"None", "CoreV1Api"}
    /\ k8s.metrics_api \in {"None", "CustomObjectsApi"}
    /\ k8s.server = "http" =>
          (k8s.k8s_enabled <=> k8s.v1 # "None" /\ k8s.metrics_api # "None")

\* C23: the client handles are set by the module-level initialization only:
\* in-cluster configuration is tried first and kubeconfig only when it
\* failed; when both fail the handles are None; once the module is loaded,
\* k8s_enabled of the HTTP server is true exactly when the core client and
\* the metrics client are both not None, no handler is served before, and no
\* step of any handler changes k8s_enabled or the handles.
C23_HandlesSetOnceWithFallback ==
    /\ [](IF k8s.loaded THEN HandlesInitialized
          ELSE k8s = Unloaded(k8s.server) /\ req.pc = "idle")
    /\ [][k8s.loaded => k8s' = k8s]_vars

\* C23 witness: a request of the HTTP server was answered by a handler that
\* used the handles, which the kubeconfig fallback had set.
C23_Witness ==
    /\ k8s.server = "http"
    /\ k8s.tried = <<"incluster", "kubeconfig">>
    /\ k8s.config = "kubeconfig"
    /\ k8s.k8s_enabled
    /\ k8s.v1 = "CoreV1Api"
    /\ req.pc = "done"
    /\ req.api_calls # <<>>

(***************************************************************************)
(* C24: call_tool is total.                                                *)
(***************************************************************************)

\* The names of the tools list_tools offers.
list_tools ==
    {"get_cluster_cpu", "get_cluster_memory", "get_node_metrics", "get_pods",
     "get_pod_metrics", "get_cluster_info", "get_namespaces"}

\* A cluster API call of the request raised.
ApiFailure == \E k \in 1..Len(req.api_calls) : req.api_calls[k].status # 200

\* The usage of a container of the metrics items does not parse.
PodUsageUnparsable ==
    \E i \in 1..Len(req.items) :
        \E j \in 1..Len(req.items[i].containers) :
            \/ ~Parses(req.items[i].containers[j].usage.cpu)
            \/ ~Parses(req.items[i].containers[j].usage.memory)

\* A quantity string of a node of the metrics items that the inventory knows
\* does not parse.
NodeUsageUnparsable ==
    \E i \in 1..Len(req.items) :
        /\ req.items[i].name \in DOMAIN req.node_capacities
        /\ \/ ~Parses(req.items[i].usage.cpu)
           \/ ~Parses(req.items[i].usage.memory)
           \/ ~Parses(req.node_capacities[req.items[i].name].cpu)
           \/ ~Parses(req.node_capacities[req.items[i].name].memory)

\* The calls of the request returned and a quantity string the handler reads
\* does not parse.
ParseFailure ==
    /\ req.api_calls # <<>>
    /\ ~ApiFailure
    /\ CASE req.name \in ToolNames -> SamplesObtained /\ ~AllParse
         [] req.name = "get_pod_metrics" -> PodUsageUnparsable
         [] req.name = "get_node_metrics" -> NodeUsageUnparsable
         [] OTHER -> FALSE

\* A call under way is at a step of its handler that has a successor: a
\* listing call, which ends one way or another, or the loop, which makes a
\* pass on the item it is at or is over.
CanStep ==
    /\ req.pc \in {"list_metrics", "list_node", "loop"}
    /\ req.pc = "loop" => req.i \in 1..(Len(req.nodes_metrics) + 1)

\* C24: call_tool returns for every tool name, every arguments dict and every
\* end of its cluster API calls and quantity parses: a call under way always
\* has a next step, and it ends with exactly one text content item, never
\* with an exception that leaves call_tool.  A name that is none of the tools,
\* with the client initialized, is answered with the 'Unknown tool' error
\* object naming it; a missing client, a cluster API call that raised and a
\* quantity string that does not parse are each answered with an error object
\* and no result, and an answer without an error holds a result.
C24_CallToolTotal ==
    k8s.server = "mcp" =>
        /\ req.pc \notin {"idle", "done"} => CanStep
        /\ req.pc = "done" =>
              /\ req.response.kind = "text"
              /\ req.name \notin list_tools /\ ~ClientMissing =>
                    req.response = unknown_tool(req.name)
              /\ ClientMissing \/ ApiFailure \/ ParseFailure =>
                    /\ req.response.error # ""
                    /\ req.response.result = NoResult
              /\ req.response.error = "" => req.response.result # NoResult

\* C24 witness: get_pod_metrics read a container usage that does not parse
\* after its metrics call returned, and call_tool answered with the error
\* object of type ValueError.
C24_Witness ==
    /\ k8s.server = "mcp"
    /\ req.pc = "done"
    /\ req.name = "get_pod_metrics"
    /\ ParseFailure
    /\ req.response = Response("text", 0, "ValueError", "ValueError", NoResult)

(***************************************************************************)
(* C25: at most one suffix rule matches an input.                          *)
(***************************************************************************)

\* The suffix checks of parse_quantity in the order the code makes them: the
\* if / elif on m and n, which divide, then the entries of the units table,
\* which multiply.
suffix_rules(table) ==
    << [suffix |-> <<"m">>, op |-> "div", factor |-> FInt(1000)],
       [suffix |-> <<"n">>, op |-> "div", factor |-> FInt(1000000000)] >>
      \o [i \in 1..Len(table) |->
            [suffix |-> table[i].suffix, op |-> "mul",
             factor |-> table[i].multiplier]]

\* The return statement of a suffix check that matched.
apply_rule(rule, quantity_str) ==
    IF rule.op = "div"
    THEN PyDiv(float(DropLast(quantity_str, 1)), rule.factor)
    ELSE PyMul(float(StripSuffix(quantity_str, rule.suffix)), rule.factor)

\* The suffix checks made in the order order (indices into rules) from its
\* k-th on, then the final float().
RECURSIVE rules_in_order(_, _, _, _)
rules_in_order(quantity_str, rules, order, k) ==
    IF k > Len(order) THEN float(quantity_str)
    ELSE IF EndsWith(quantity_str, rules[order[k]].suffix)
         THEN apply_rule(rules[order[k]], quantity_str)
    ELSE rules_in_order(quantity_str, rules, order, k + 1)

\* parse_quantity with its suffix checks made in the order order.
parse_quantity_in_order(quantity_str, rules, order) ==
    IF Falsy(quantity_str) THEN Ok(FZero)
    ELSE rules_in_order(quantity_str, rules, order, 1)

\* The order of the code with check j made first.
MoveToFront(j, n) ==
    <<j>> \o SelectSeq([i \in 1..n |-> i], LAMBDA x : x # j)

\* The order of the code with check j made last.
MoveToBack(j, n) ==
    SelectSeq([i \in 1..n |-> i], LAMBDA x : x # j) \o <<j>>

\* Orders of n checks: the reverse of the code's, and, for every check, the
\* code's order with that check moved to the front and to the back.  The
\* result of an order is that of the first check in it that matches, and every
\* check is the first of one of these orders, so the results of these orders
\* are the results of all n! orders.
Reorderings(n) ==
    {[i \in 1..n |-> n + 1 - i]}
      \cup {MoveToFront(j, n) : j \in 1..n}
      \cup {MoveToBack(j, n) : j \in 1..n}

\* The checks of rules whose suffix ends quantity_str.
Matching(rules, quantity_str) ==
    {i \in 1..Len(rules) : EndsWith(quantity_str, rules[i].suffix)}

\* No suffix of rules ends another suffix of rules.
NoSuffixEndsAnother(rules) ==
    \A i, j \in 1..Len(rules) :
        i # j => ~EndsWith(rules[i].suffix, rules[j].suffix)

\* Every reordering of the checks of rules gives result for quantity_str.
SameUnderReordering(rules, quantity_str, result) ==
    \A order \in Reorderings(Len(rules)) :
        parse_quantity_in_order(quantity_str, rules, order) = result

\* C25: in both copies of parse_quantity no suffix among m, n, Ki, Mi, Gi, Ti,
\* K, M, G, T ends another one, at most one suffix check matches any input,
\* and the result (value or error) of every input is the one the code
\* returns whatever the order in which the m / n checks and the entries of
\* the units table are tried.
C25_OneRulePerInput ==
    /\ NoSuffixEndsAnother(suffix_rules(units))
    /\ NoSuffixEndsAnother(suffix_rules(unified_units))
    /\ pq_out.done =>
          /\ Cardinality(Matching(suffix_rules(units), pq_in)) <= 1
          /\ Cardinality(Matching(suffix_rules(unified_units), pq_in)) <= 1
          /\ SameUnderReordering(suffix_rules(units), pq_in, pq_out.mcp)
          /\ SameUnderReordering(suffix_rules(unified_units), pq_in, pq_out.http)

\* C25 witness: 5Ki was parsed; only the Ki check matches it, and with the
\* checks tried in reverse order (T, G, M, K first) the result is still 5120.
C25_Witness ==
    /\ pq_out.done
    /\ pq_in = <<"5", "K", "i">>
    /\ Matching(suffix_rules(units), pq_in) = {3}
    /\ parse_quantity_in_order(pq_in, suffix_rules(units), [i \in 1..10 |-> 11 - i])
          = Ok(FInt(5120))
    /\ pq_out.mcp = Ok(FInt(5120))

====
